---- MODULE Spec2Model ----
(***************************************************************************)
(* Model of the resumable batch pipeline of LLM-Batch:                     *)
(*   - BatchProcessor._process_single_file (src/src/core/processor.py)     *)
(*   - FileProcessor.read_file_batch        (src/src/utils/file_utils.py)  *)
(*   - UniversalLLMProvider.process_request (src/src/providers/            *)
(*     universal_llm.py)                                                   *)
(* Spec     : the orchestrator loop of one input file over several runs    *)
(*            (start, load progress, read, dispatch, gather, classify,     *)
(*            checkpoint, interruption and restart).                       *)
(* OutSpec  : the same runs without interruption, each iteration of the    *)
(*            classify loop recorded (counters and output files).          *)
(* ProvSpec : the requests of one batch inside the provider (semaphore,    *)
(*            HTTP attempts, retries, backoff), and the request loop of    *)
(*            the standalone script llm_batch_call_round2.py.              *)
(* ParseSpec: the parsing of the content of one 200 response.              *)
(* DirSpec  : process_files over the input files of a directory.           *)
(* DiskSpec : the output files of one input file during one run.           *)
(* WriteSpec: the appends of one batch to the output files.                *)
(* TwinSpec : two runs side by side on one input and progress file.        *)
(* GuardSpec: the requests of one batch, of any length.                    *)
(* RetrySpec: one call of BatchProcessor.retry_failed_records.             *)
(* AgentSpec: the requests of one batch in AliyunAgentProvider.            *)
(* ResumeSpec: the runs of llm_batch_call_round2.py on one input file.     *)
(***************************************************************************)
EXTENDS Integers, Sequences, FiniteSets, TLC

\* ----------------------------------------------------------------- bounds
MaxRows == 3        \* physical lines (data rows) of the input file
MaxBad == 1         \* malformed lines of a line-delimited JSON input
MaxBatch == 2       \* largest configured batch_size
MaxRuns == 2        \* runs (process starts) on the same paths
MaxStart == 2       \* largest --start-pos tried
MaxTasks == 2       \* requests of one batch inside the provider
MaxRetries == 2     \* largest configured max_retries
MaxLimit == 2       \* largest configured concurrent_limit
MaxProvBatches == 2 \* batches sent through one provider instance
MaxInterval == 1    \* retry_interval is IntervalStep * (0..MaxInterval) seconds
IntervalStep == 6

VARIABLES
    \* ---- configuration and input, fixed for a behaviour (with end_pos)
    file_ext,        \* ".csv" or ".json" (file_path.suffix)
    file_lines,      \* file_lines[i] = TRUE iff physical data line i-1 parses
    batch_size,      \* process_config['batch_size']
    \* ---- the run in progress (locals of _process_single_file)
    pc,              \* position in _process_single_file
    start_pos,       \* --start-pos (1-based)
    end_pos,         \* --end-pos, 0 for None (the same in every run)
    current_pos,
    stats,
    output_headers,  \* NoHeaders (None) or the key set of the header
    items,           \* offsets of the records of the batch read
    results,         \* results[i]: "pending" until task i has returned
    k,               \* index of the next (item, result) pair to classify
    batch_no,        \* batches checkpointed by this run
    \* ---- the disk
    progress_file,
    \* ---- history (not read by the program)
    run,             \* runs started so far
    read_pos,        \* offset at which the batch in progress was read
    loaded_pos,      \* last_position loaded when the run started, -1 if none
    dispatched,      \* offsets dispatched by the run in progress
    handled,         \* offsets whose result went through the classify loop
    same_args,       \* every run so far had the same start position
    origin,          \* offset at which the records counted in the progress file
                     \* begin, -1 if none or a run has started beyond the checkpoint
    last_written,    \* last_position of the last complete progress write, -1 if none
    last_iter,       \* OutSpec: the loop iteration just executed, its result and what it did
    \* ---- the provider (ProvSpec)
    semaphore,       \* free slots of self.semaphore
    req,             \* req[t]: the process_request call chain of task t
    max_retries,     \* BaseProvider.max_retries
    concurrent_limit,
    retry_interval,  \* BaseProvider.retry_interval (config.sleep_time in the script)
    prov_batches,    \* batches gathered so far on this provider
    impl,            \* "provider": UniversalLLMProvider.process_request,
                     \* "script": deepseek_request_async of llm_batch_call_round2.py
    \* ---- the parsing of one 200 response (ParseSpec)
    body,            \* the response: has_choices, content (tokens), has_fields
    parser,          \* "provider": _parse_success_response, "script": parse_llm_response
    parsed,          \* "-" before the call, then "dict", "number" or "None"
    \* ---- the files of one run in directory mode (DirSpec)
    input_files,     \* input_files[i]: what goes wrong with file i, and its batches
    file_idx,        \* index of the file process_files is at
    dir_pc,          \* position in process_files / _process_single_file
    file_batches,    \* batches of the current file checkpointed so far
    file_state,      \* file_state[i]: "pending", "done", "failed" or "raised"
    prompt,          \* the prompt file: its suffix, syntax and the parts it has
    dir_effects,     \* what the run has done: "request", "tables", "progress"
    \* ---- the output files of one input file during one run (DiskSpec)
    disk,            \* disk[f]: whether f exists, its lines, what it was at the start
    backups,         \* the files copied to the backups directory by this run
    disk_pc,         \* position in _process_single_file / retry_failed_records
    disk_mode,       \* "process": _process_single_file, "retry": retry_failed_records
    disk_ext,        \* suffix of the input file
    disk_writes,     \* appends and rewrites of the run so far
    \* ---- the appends of one batch (WriteSpec)
    w_impl,          \* "processor": processor.py, "script": llm_batch_call_round2.py
    w_results,       \* w_results[i]: "pending" until request i has returned
    w_order,         \* the requests in the order in which they returned
    w_pc,            \* position of the coroutine that gathers and writes
    w_k,             \* index of the (item, result) pair the loop is at
    w_plan,          \* the files still to append to for that pair
    handles,         \* the <<pair, file>> whose file is open for append
    write_lock,      \* OutputManager.write_lock is held (script)
    w_log,           \* the pairs of the appends made, in order
    \* ---- two runs side by side on the same input and progress file (TwinSpec)
    twin,            \* twin[t]: position, offsets read and table rows of run t
    \* ---- one call of retry_failed_records (RetrySpec)
    retry_run,       \* its position, the failed records read, the tables
    \* ---- the runs of llm_batch_call_round2.py on one input file (ResumeSpec)
    resume           \* its position, offset and the rows of its two tables

pipeVars == <<file_ext, file_lines, batch_size, pc, start_pos, end_pos,
              current_pos, stats, output_headers, items, results, k, batch_no,
              progress_file, run, read_pos, loaded_pos, dispatched, handled,
              same_args, origin, last_written, last_iter>>
provVars == <<semaphore, req, max_retries, concurrent_limit, retry_interval,
              prov_batches, impl>>
parseVars == <<body, parser, parsed>>
dirVars == <<input_files, file_idx, dir_pc, file_batches, file_state, prompt,
             dir_effects>>
diskVars == <<disk, backups, disk_pc, disk_mode, disk_ext, disk_writes>>
writeVars == <<w_impl, w_results, w_order, w_pc, w_k, w_plan, handles,
               write_lock, w_log>>
sideVars == <<twin, retry_run, resume>>
auxVars == <<diskVars, writeVars, sideVars>>
vars == <<pipeVars, provVars, parseVars, dirVars, auxVars>>

Max(a, b) == IF a >= b THEN a ELSE b
Min(a, b) == IF a <= b THEN a ELSE b

\* ------------------------------------------------------------------ stats
ZeroStats ==
    [total |-> 0, success |-> 0, api_error |-> 0, empty_result |-> 0,
     json_error |-> 0, other_error |-> 0]

OutcomeSum(s) ==
    s.success + s.api_error + s.empty_result + s.json_error + s.other_error

\* ---------------------------------------------------------- progress file
NoProgress == [status |-> "absent", last_position |-> 0, stats |-> ZeroStats]
\* open(progress_file, 'w') has truncated the file and json.dump has not
\* finished: json.load of it raises
PartialProgress == [status |-> "partial", last_position |-> 0, stats |-> ZeroStats]
CompleteProgress(pos, s) == [status |-> "complete", last_position |-> pos, stats |-> s]

\* ------------------------------------------------------------- input file
Range(s) == {s[i] : i \in DOMAIN s}

\* (mutant) skiprows one row too many: the row at start_pos is skipped
ReadCsvBatchOffByOne(pos, size) ==
    LET first == Max(pos, 0) + 1
        last == Min(first + size, Len(file_lines))
    IN  [i \in 1..Max(last - first, 0) |-> first + i - 1]

\* pd.read_csv(skiprows=range(1, start_pos + 1), nrows=batch_size): the data
\* rows start_pos .. start_pos + batch_size - 1 that exist
ReadCsvBatch(pos, size) ==
    LET first == Max(pos, 0)
        last == Min(first + size, Len(file_lines))
    IN  [i \in 1..Max(last - first, 0) |-> first + i - 1]

\* the loop of _read_json_batch from physical line i (1-based): a line that
\* does not parse is skipped without being counted
RECURSIVE JsonScan(_, _, _)
JsonScan(i, size, acc) ==
    IF i > Len(file_lines) \/ Len(acc) >= size THEN acc
    ELSE IF file_lines[i] THEN JsonScan(i + 1, size, Append(acc, i - 1))
    ELSE JsonScan(i + 1, size, acc)

ReadJsonBatch(pos, size) == JsonScan(Max(pos, 0) + 1, size, <<>>)

\* FileProcessor.read_file_batch: the offsets of the records returned
ReadFileBatch(pos, size) ==
    IF file_ext = ".json" THEN ReadJsonBatch(pos, size) ELSE ReadCsvBatch(pos, size)

\* ------------------------------------------------------- provider results
\* What a task of asyncio.gather(..., return_exceptions=True) can hand back,
\* by the Python type and shape the classify loop tests for. The value is
\* read by the program in the classify loop only, and is drawn there.
Keys == {"a", "b"}
\* the places where UniversalLLMProvider.process_request returns None
\* (universal_llm.py 185, 123, 131, 149 and 158)
NoneReturns == {"retries_exhausted", "status_not_retryable", "no_choices",
                "parse_failed"}
NoHeaders == {}                       \* output_headers = None
R(t, sh, ks) == [type |-> t, shape |-> sh, keys |-> ks]

ProviderResults ==
    { R("Exception", "-", {}), R("list", "-", {}) }
    \cup { R("None", why, {}) : why \in NoneReturns }
    \cup { R("dict", "plain", ks) : ks \in SUBSET Keys \ {{"b"}} }
    \cup { R("dict", sh, {}) : sh \in {"raw_parse_error", "content_usage_md_invalid",
                                       "content_usage_no_md"} }
    \cup { R("dict", sh, {"a"}) : sh \in {"raw_parsed", "content_usage_md_json"} }
    \cup { R("str", sh, {}) : sh \in {"md_invalid", "json_scalar", "invalid"} }
    \cup { R("str", sh, {"a"}) : sh \in {"md_json", "json_dict"} }

\* ---------------------------------------------------------- classify loop
\* What one pass of the loop body (processor.py 547-898) does for one
\* (item, result) pair: the increments of the outcome counters, the header
\* afterwards and the files it appended to.
Outcome(s, a, j, o, h, out, err, raw) ==
    [success |-> s, api_error |-> a, json_error |-> j, other_error |-> o,
     headers |-> h, out_row |-> out, err_row |-> err, raw_row |-> raw]

\* csv.DictWriter(f, fieldnames=output_headers).writerow(row): TypeError when
\* fieldnames is None, ValueError when row has a key outside fieldnames
WriteRowRaises(headers, keys) == headers = NoHeaders \/ ~(keys \subseteq headers)

\* "if output_headers is None and parsed_data: output_headers = list(keys)"
FixHeaders(headers, keys) == IF headers = NoHeaders /\ keys # {} THEN keys ELSE headers

\* A success branch: stats['success'] += 1 comes first, then the raw line, the
\* header and the row; an exception of writerow reaches a handler that adds
\* stats['other_error'] += 1 (and, if err_on_raise, an error row).
WriteSuccess(headers, keys, err_on_raise) ==
    LET h == FixHeaders(headers, keys)
        raises == WriteRowRaises(h, keys)
    IN  Outcome(1, 0, 0, IF raises THEN 1 ELSE 0, h, ~raises, raises /\ err_on_raise, TRUE)

\* isinstance(result, Exception)
ClassifyException(h) == Outcome(0, 1, 0, 0, h, FALSE, TRUE, FALSE)

\* dict with '_raw_response'
ClassifyRawDict(r, h) ==
    IF r.shape = "raw_parsed" THEN WriteSuccess(h, r.keys, TRUE)
    ELSE Outcome(0, 0, 1, 0, h, FALSE, TRUE, TRUE)

\* dict with 'content' and 'usage'
ClassifyContentUsage(r, h) ==
    IF r.shape = "content_usage_md_json" THEN WriteSuccess(h, r.keys, TRUE)
    ELSE Outcome(0, 0, 1, 0, h, FALSE, TRUE, FALSE)

\* any other dict
ClassifyPlainDict(r, h) == WriteSuccess(h, r.keys, TRUE)

\* isinstance(result, str)
ClassifyStr(r, h) ==
    CASE r.shape = "md_json" -> WriteSuccess(h, r.keys, FALSE)
      [] r.shape = "md_invalid" -> Outcome(0, 0, 0, 0, h, FALSE, TRUE, FALSE)
      [] r.shape = "json_dict" -> WriteSuccess(h, r.keys, FALSE)
      [] r.shape = "json_scalar" -> Outcome(0, 0, 0, 0, h, FALSE, FALSE, FALSE)
      [] OTHER -> Outcome(0, 0, 1, 0, h, FALSE, TRUE, FALSE)

\* neither Exception nor dict nor str (None, list): no branch is taken
ClassifyOther(h) == Outcome(0, 0, 0, 0, h, FALSE, FALSE, FALSE)

ClassifyResult(r, h) ==
    CASE r.type = "Exception" -> ClassifyException(h)
      [] r.type = "dict" /\ r.shape \in {"raw_parsed", "raw_parse_error"} -> ClassifyRawDict(r, h)
      [] r.type = "dict" /\ r.shape \in {"content_usage_md_json", "content_usage_md_invalid",
                                         "content_usage_no_md"} -> ClassifyContentUsage(r, h)
      [] r.type = "dict" /\ r.shape = "plain" -> ClassifyPlainDict(r, h)
      [] r.type = "str" -> ClassifyStr(r, h)
      [] OTHER -> ClassifyOther(h)

AddOutcome(s, o) ==
    [s EXCEPT !.success = @ + o.success, !.api_error = @ + o.api_error,
              !.json_error = @ + o.json_error, !.other_error = @ + o.other_error]

\* the iteration record before any result of the batch has been classified
NoLast ==
    [result |-> R("-", "-", {}), before |-> NoHeaders,
     did |-> Outcome(0, 0, 0, 0, NoHeaders, FALSE, FALSE, FALSE), out_rows |-> 0]

\* ------------------------------------------------------- progress loading
\* (mutant) the checkpoint's offset is not taken: the run starts at start_pos
LoadProgressIgnoringOffset(sp) ==
    IF progress_file.status = "complete"
    THEN [current_pos |-> sp - 1, stats |-> progress_file.stats]
    ELSE [current_pos |-> sp - 1, stats |-> ZeroStats]

\* (mutant) the run resumes at the last record of the checkpoint
LoadProgressOneBack(sp) ==
    IF progress_file.status = "complete"
    THEN [current_pos |-> Max(sp - 1, progress_file.last_position - 1),
          stats |-> progress_file.stats]
    ELSE [current_pos |-> sp - 1, stats |-> ZeroStats]

\* (mutant) the checkpoint's offset is taken, its stats are not
LoadProgressWithoutStats(sp) ==
    IF progress_file.status = "complete"
    THEN [current_pos |-> Max(sp - 1, progress_file.last_position),
          stats |-> ZeroStats]
    ELSE [current_pos |-> sp - 1, stats |-> ZeroStats]

\* processor.py 461-482: the offset and the stats a run starts with
LoadProgress(sp) ==
    IF progress_file.status = "complete"
    THEN [current_pos |-> Max(sp - 1, progress_file.last_position),
          stats |-> progress_file.stats]
    ELSE [current_pos |-> sp - 1, stats |-> ZeroStats]

\* (mutant) the offset advances by the configured batch size
AdvancedByBatchSize == current_pos + batch_size

\* processor.py 901: current_pos += len(items)
AdvancedPos == current_pos + Len(items)

\* (mutant) the checkpoint is taken inside the loop over the results
LoopDoneEarly == k >= 1

\* processor.py 547 and 900: the for loop over zip(items, results) has ended
LoopDone == k > Len(items)

\* processor.py 528: "if not items or (end_pos and current_pos >= end_pos): break"
LoopEndsAt(its, pos) == its = <<>> \/ (end_pos # 0 /\ pos >= end_pos)
LoopEnds(its) == LoopEndsAt(its, current_pos)

\* (mutant) the wait ends with the first task that returns
AnyReturned == \E i \in DOMAIN results : results[i] = "returned"

\* asyncio.gather returns when every task has returned
AllReturned == \A i \in DOMAIN results : results[i] = "returned"

\* ============================================================== the runs
InputFiles ==
    { f \in [ext : {".csv", ".json"}, lines : [1..MaxRows -> BOOLEAN]] :
        LET bad == Cardinality({i \in 1..MaxRows : ~f.lines[i]})
        IN  IF f.ext = ".csv" THEN bad = 0 ELSE bad <= MaxBad }

StartChoices == 1..MaxStart
EndChoices == 0..MaxRows            \* 0: no --end-pos

ParseIdle ==
    /\ body = [has_choices |-> TRUE, content |-> <<>>, has_fields |-> TRUE]
    /\ parser = "provider"
    /\ parsed = "-"

DirIdle ==
    /\ input_files = <<>>
    /\ file_idx = 0
    /\ dir_pc = "idle"
    /\ file_batches = 0
    /\ file_state = <<>>
    /\ prompt = [exists |-> FALSE]
    /\ dir_effects = {}

\* the four files of processor.py 375-379 that are backed up
Files == {"output", "raw", "error", "progress"}
\* orig: the number of lines the file had when the run started, -1 if it did
\* not exist; a line is "old" (written before the run) or "new"
Absent == [exists |-> FALSE, lines |-> <<>>, orig |-> -1, written |-> FALSE]

DiskIdle ==
    /\ disk = [f \in Files |-> Absent]
    /\ backups = {}
    /\ disk_pc = "idle"
    /\ disk_mode = "process"
    /\ disk_ext = ".csv"
    /\ disk_writes = 0

WriteIdle ==
    /\ w_impl = "processor"
    /\ w_results = <<>>
    /\ w_order = <<>>
    /\ w_pc = "idle"
    /\ w_k = 1
    /\ w_plan = <<>>
    /\ handles = {}
    /\ write_lock = FALSE
    /\ w_log = <<>>

TwinIdle == twin = <<>>

RetryIdle == retry_run = [pc |-> "idle"]

ResumeIdle == resume = [pc |-> "idle"]

AuxIdle == DiskIdle /\ WriteIdle /\ TwinIdle /\ RetryIdle /\ ResumeIdle

ProvIdle ==
    /\ semaphore = 0
    /\ req = <<>>
    /\ max_retries = 0
    /\ concurrent_limit = 0
    /\ retry_interval = 0
    /\ prov_batches = 0
    /\ impl = "provider"

Init ==
    /\ \E f \in InputFiles : file_ext = f.ext /\ file_lines = f.lines
    /\ batch_size \in 1..MaxBatch
    /\ pc = "idle"
    /\ start_pos = 1
    /\ end_pos \in EndChoices
    /\ current_pos = 0
    /\ stats = ZeroStats
    /\ output_headers = NoHeaders
    /\ items = <<>>
    /\ results = <<>>
    /\ k = 1
    /\ batch_no = 0
    /\ progress_file = NoProgress
    /\ run = 0
    /\ read_pos = 0
    /\ loaded_pos = -1
    /\ dispatched = {}
    /\ handled = {}
    /\ same_args = TRUE
    /\ origin = -1
    /\ last_written = -1
    /\ last_iter = NoLast
    /\ ProvIdle
    /\ ParseIdle
    /\ DirIdle
    /\ AuxIdle

\* main() -> process_files -> _process_single_file up to the loop
\* (processor.py 461-503): the progress file is loaded
StartRun(sp) ==
    /\ pc \in {"idle", "done"}
    /\ run < MaxRuns
    /\ run' = run + 1
    /\ start_pos' = sp
    /\ current_pos' = LoadProgress(sp).current_pos
    /\ stats' = LoadProgress(sp).stats
    /\ output_headers' = NoHeaders
    /\ items' = <<>>
    /\ results' = <<>>
    /\ k' = 1
    /\ batch_no' = 0
    /\ read_pos' = 0
    /\ loaded_pos' = IF progress_file.status = "complete"
                     THEN progress_file.last_position ELSE -1
    /\ dispatched' = {}
    /\ same_args' = IF run = 0 THEN TRUE
                    ELSE same_args /\ sp = start_pos
    /\ origin' = IF progress_file.status # "complete" THEN sp - 1
                 ELSE IF sp - 1 <= progress_file.last_position THEN origin
                 ELSE -1
    /\ pc' = "read"
    /\ UNCHANGED <<file_ext, file_lines, batch_size, end_pos, progress_file,
                   handled, last_written, last_iter, provVars, parseVars, dirVars, auxVars>>

\* processor.py 521-541: a batch is read, counted and its requests created
ReadBatch ==
    /\ pc = "read"
    /\ LET its == ReadFileBatch(current_pos, batch_size)
       IN  /\ ~LoopEnds(its)
           /\ items' = its
           /\ stats' = [stats EXCEPT !.total = @ + Len(its)]
           /\ results' = [i \in 1..Len(its) |-> "pending"]
           /\ dispatched' = dispatched \cup Range(its)
    /\ read_pos' = current_pos
    /\ k' = 1
    /\ pc' = "await"
    /\ UNCHANGED <<file_ext, file_lines, batch_size, start_pos, end_pos,
                   current_pos, output_headers, batch_no, progress_file, run,
                   loaded_pos, handled, same_args, origin, last_written, last_iter, provVars, parseVars, dirVars, auxVars>>

\* processor.py 528-529 and 919-935: the loop breaks, the file is done
EndOfRange ==
    /\ pc = "read"
    /\ LoopEnds(ReadFileBatch(current_pos, batch_size))
    /\ pc' = "done"
    /\ UNCHANGED <<file_ext, file_lines, batch_size, start_pos, end_pos,
                   current_pos, stats, output_headers, items, results, k,
                   batch_no, progress_file, run, read_pos, loaded_pos,
                   dispatched, handled, same_args, origin, last_written, last_iter, provVars, parseVars, dirVars, auxVars>>

\* one task of the gather returns (processor.py 544, while awaiting)
TaskReturns(i) ==
    /\ pc = "await"
    /\ i \in DOMAIN results
    /\ results[i] = "pending"
    /\ results' = [results EXCEPT ![i] = "returned"]
    /\ UNCHANGED <<file_ext, file_lines, batch_size, pc, start_pos, end_pos,
                   current_pos, stats, output_headers, items, k, batch_no,
                   progress_file, run, read_pos, loaded_pos, dispatched,
                   handled, same_args, origin, last_written, last_iter, provVars, parseVars, dirVars, auxVars>>

\* processor.py 544: results = await asyncio.gather(*tasks, return_exceptions=True)
Gather ==
    /\ pc = "await"
    /\ AllReturned
    /\ pc' = "classify"
    /\ UNCHANGED <<file_ext, file_lines, batch_size, start_pos, end_pos,
                   current_pos, stats, output_headers, items, results, k,
                   batch_no, progress_file, run, read_pos, loaded_pos,
                   dispatched, handled, same_args, origin, last_written, last_iter, provVars, parseVars, dirVars, auxVars>>

\* processor.py 547-898: one iteration of "for item, result in zip(items, results)",
\* r being results[k]
ClassifyStep(r) ==
    /\ pc = "classify"
    /\ k <= Len(items)
    /\ LET o == ClassifyResult(r, output_headers)
       IN  /\ stats' = AddOutcome(stats, o)
           /\ output_headers' = o.headers
    /\ handled' = handled \cup {items[k]}
    /\ k' = k + 1
    /\ UNCHANGED <<file_ext, file_lines, batch_size, pc, start_pos, end_pos,
                   current_pos, items, results, batch_no, progress_file, run,
                   read_pos, loaded_pos, dispatched, same_args, origin, last_written,
                   provVars, parseVars, dirVars, auxVars>>

\* the iteration in Spec, which keeps no record of it
ClassifyNext(r) == ClassifyStep(r) /\ UNCHANGED last_iter

\* the iteration in OutSpec: what it did is recorded in last_iter, with the
\* number of rows appended to the output file so far
ClassifyTraced(r) ==
    /\ ClassifyStep(r)
    /\ last_iter' = [result |-> r, before |-> output_headers,
                     did |-> ClassifyResult(r, output_headers),
                     out_rows |-> last_iter.out_rows +
                         (IF ClassifyResult(r, output_headers).out_row THEN 1 ELSE 0)]

\* processor.py 900-911: the offset advances and open(progress_file, 'w')
\* truncates the progress file
OpenProgress ==
    /\ pc = "classify"
    /\ LoopDone
    /\ current_pos' = AdvancedPos
    /\ progress_file' = PartialProgress
    /\ pc' = "dump"
    /\ UNCHANGED <<file_ext, file_lines, batch_size, start_pos, end_pos, stats,
                   output_headers, items, results, k, batch_no, run, read_pos,
                   loaded_pos, dispatched, handled, same_args, origin, last_written,
                   last_iter, provVars, parseVars, dirVars, auxVars>>

\* processor.py 912: json.dump(progress_data, f) completes and the file is closed
DumpProgress ==
    /\ pc = "dump"
    /\ progress_file' = CompleteProgress(current_pos, stats)
    /\ last_written' = current_pos
    /\ batch_no' = batch_no + 1
    /\ items' = <<>>
    /\ results' = <<>>
    /\ k' = 1
    /\ pc' = "read"
    /\ UNCHANGED <<file_ext, file_lines, batch_size, start_pos, end_pos,
                   current_pos, stats, output_headers, run, read_pos,
                   loaded_pos, dispatched, handled, same_args, origin, last_iter, provVars, parseVars, dirVars, auxVars>>

\* The process is interrupted (KeyboardInterrupt, main.py 78-79, or a kill):
\* what is in memory is lost, what is on disk stays.
Interrupt ==
    /\ pc \in {"read", "await", "classify", "dump"}
    /\ pc' = "idle"
    /\ current_pos' = 0
    /\ stats' = ZeroStats
    /\ output_headers' = NoHeaders
    /\ items' = <<>>
    /\ results' = <<>>
    /\ k' = 1
    /\ batch_no' = 0
    /\ read_pos' = 0
    /\ loaded_pos' = -1
    /\ dispatched' = {}
    /\ UNCHANGED <<file_ext, file_lines, batch_size, start_pos, end_pos,
                   progress_file, run, handled, same_args, origin, last_written,
                   last_iter, provVars, parseVars, dirVars, auxVars>>

Next ==
    \/ \E sp \in StartChoices : StartRun(sp)
    \/ ReadBatch
    \/ EndOfRange
    \/ \E i \in 1..MaxBatch : TaskReturns(i)
    \/ Gather
    \/ \E r \in ProviderResults : ClassifyNext(r)
    \/ OpenProgress
    \/ DumpProgress
    \/ Interrupt

Spec == Init /\ [][Next]_vars

\* The runs without interruption, each loop iteration recorded: the outputs
\* of the classify loop (output, error and raw files, counters).
OutNext ==
    \/ \E sp \in StartChoices : StartRun(sp)
    \/ ReadBatch
    \/ EndOfRange
    \/ \E i \in 1..MaxBatch : TaskReturns(i)
    \/ Gather
    \/ \E r \in ProviderResults : ClassifyTraced(r)
    \/ OpenProgress
    \/ DumpProgress

OutSpec == Init /\ [][OutNext]_vars

\* ============================================================ the claims
ValidLine(j) == j + 1 \in DOMAIN file_lines /\ file_lines[j + 1]

\* the end of the requested range: --end-pos if given, else the end of the file
RangeEnd == IF end_pos # 0 THEN Min(end_pos, Len(file_lines)) ELSE Len(file_lines)

\* C1: every complete progress file satisfies
\* stats.total = success + api_error + empty_result + json_error + other_error.
C1_CheckpointStatsAddUp ==
    progress_file.status = "complete"
        => progress_file.stats.total = OutcomeSum(progress_file.stats)

\* C2: each iteration of the classify loop increments exactly one outcome
\* counter, exactly once, whatever the task returned.
C2_ExactlyOneOutcome ==
    [][k' = k + 1 => OutcomeSum(stats') = OutcomeSum(stats) + 1]_vars

\* C3: when a progress file was loaded, the first batch of the run is read at
\* max(start_pos - 1, last_position).
C3_FirstReadAtMax ==
    (batch_no = 0 /\ loaded_pos >= 0) =>
        /\ pc \in {"await", "classify", "dump"} => read_pos = Max(start_pos - 1, loaded_pos)
        /\ pc \in {"read", "done"} => current_pos = Max(start_pos - 1, loaded_pos)

C3_Witness ==
    /\ pc = "await"
    /\ batch_no = 0
    /\ loaded_pos > start_pos - 1
    /\ start_pos > 1
    /\ read_pos = loaded_pos
    /\ loaded_pos \in dispatched

C5_LastPositionMonotone ==
    [][(progress_file'.status = "complete" /\ progress_file' # progress_file)
          => progress_file'.last_position >= last_written]_vars

\* C6: over runs with the same arguments, interrupted anywhere, every record
\* below the persisted checkpoint has been dispatched and gone through the
\* classify loop in some run, and so has every record of the range once a
\* run is done.
C6_AtLeastOnce ==
    same_args =>
        /\ progress_file.status = "complete" =>
              \A j \in (start_pos - 1)..(progress_file.last_position - 1) :
                  ValidLine(j) => j \in handled
        /\ pc = "done" =>
              \A j \in (start_pos - 1)..(RangeEnd - 1) : ValidLine(j) => j \in handled

\* the second run of two with the same arguments, the first one interrupted
\* after a checkpoint and with a batch in progress, is done
C6_Witness ==
    /\ same_args
    /\ run = 2
    /\ pc = "done"
    /\ start_pos = 1
    /\ loaded_pos >= 1
    /\ dispatched # {}
    /\ progress_file.status = "complete"
    /\ \A j \in 0..(Len(file_lines) - 1) : ValidLine(j) => j \in handled

\* C8: the progress file changes only when the classify loop of the batch
\* has ended, and a complete write stores the offset the batch was read at
\* plus len(items).
C8_CheckpointAfterBatch ==
    [][progress_file' # progress_file =>
          /\ pc \in {"classify", "dump"}
          /\ Len(items) >= 1
          /\ k = Len(items) + 1
          /\ progress_file'.status = "complete" =>
                progress_file'.last_position = read_pos + Len(items)]_vars

C8_Witness ==
    /\ pc = "read"
    /\ batch_no >= 1
    /\ progress_file.status = "complete"
    /\ progress_file.last_position = current_pos
    /\ current_pos - read_pos >= 1
    /\ current_pos - read_pos < batch_size

\* C9: the requests of a batch exist together, no result is classified while
\* one of them is outstanding, and a later batch of a run has requests only
\* when the checkpoint of the batch before it is on disk.
C9_BulkSynchronous ==
    /\ pc = "await" => (DOMAIN results = DOMAIN items /\ k = 1)
    /\ pc = "classify" => \A i \in DOMAIN results : results[i] = "returned"
    /\ (pc \in {"await", "classify"} /\ batch_no >= 1) =>
          (progress_file.status = "complete" /\ progress_file.last_position = read_pos)

\* a request of a later batch is outstanding, the checkpoint of the batch
\* before it is on disk
C9_Witness ==
    /\ pc = "await"
    /\ batch_no >= 1
    /\ read_pos >= 2
    /\ \E i \in DOMAIN results : results[i] = "pending"
    /\ progress_file = CompleteProgress(read_pos, [stats EXCEPT !.total = @ - Len(items)])

\* ---------------------------------------- claims on the classify loop
\* an iteration of the classify loop of the batch in progress has just run
\* (OutSpec): last_iter is the record of the pair (items[k - 1], its result)
Classified == pc = "classify" /\ k > 1
Did == last_iter.did

\* C12: a record whose call used up its retries on retryable statuses (the
\* provider returns None, universal_llm.py 185) is counted in
\* stats.api_error and gets one row in the error file and none in the output.
C12_ExhaustedIsApiError ==
    (Classified /\ last_iter.result = R("None", "retries_exhausted", {})) =>
        /\ Did.api_error = 1
        /\ Did.success = 0
        /\ Did.err_row
        /\ ~Did.out_row

\* C13: a record whose call got a status that is not retried (the provider
\* returns None, universal_llm.py 123) is counted in stats.api_error and
\* written to the error file.
C13_OtherStatusIsApiError ==
    (Classified /\ last_iter.result = R("None", "status_not_retryable", {})) =>
        (Did.api_error = 1 /\ Did.err_row)

\* the result of the iteration is a failure of that record: the request
\* raised, the response did not parse, or writing the row raised
RecordFailed ==
    \/ last_iter.result.type = "Exception"
    \/ last_iter.result = R("None", "parse_failed", {})
    \/ last_iter.result.shape \in {"raw_parse_error", "content_usage_md_invalid",
                                    "content_usage_no_md", "md_invalid", "invalid"}
    \/ Did.success = 1 /\ WriteRowRaises(Did.headers, last_iter.result.keys)

\* C16: a record that failed is counted as a failure and written to the
\* error file, the loop goes on to the end of the batch, and the checkpoint
\* of the batch is written.
C16_RecordFailureStaysLocal ==
    /\ (Classified /\ RecordFailed) =>
          /\ Did.err_row
          /\ Did.api_error + Did.json_error + Did.other_error >= 1
    /\ Classified => \A i \in 1..(k - 1) : items[i] \in handled
    /\ (pc = "read" /\ batch_no >= 1) =>
          progress_file = CompleteProgress(current_pos, stats)

\* C18: every classified record has a row in exactly one of the output and
\* the error file: in the output file iff it was counted as a success.
C18_OutputPartition ==
    Classified =>
        /\ Did.out_row # Did.err_row
        /\ Did.out_row <=> (Did.success = 1)

\* C19: every classified record, whatever its outcome, has one line in the
\* raw file.
C19_OneRawLine == Classified => Did.raw_row

\* C20: once the header is fixed, a successful record with another key set
\* is still written to the output file and counted as a success only.
C20_HeaderDriftTolerated ==
    (/\ Classified
     /\ Did.success = 1
     /\ last_iter.before # NoHeaders
     /\ last_iter.result.keys # last_iter.before) =>
        /\ Did.headers = last_iter.before
        /\ Did.out_row
        /\ Did.other_error = 0
        /\ ~Did.err_row

\* C22: a fresh run over a CSV input of N rows in which every record was
\* counted as a success (every request returned a payload) has checkpointed
\* ceil(N / batch_size) batches, and ends with last_position = N,
\* stats.total = stats.success = N and every error counter zero.
C22_FreshRunAllValid ==
    LET N == Len(file_lines)
    IN  (/\ pc = "done"
         /\ run = 1
         /\ file_ext = ".csv"
         /\ start_pos = 1
         /\ end_pos = 0
         /\ stats.success = N) =>
            /\ batch_no = (N + batch_size - 1) \div batch_size
            /\ progress_file =
                   CompleteProgress(N, [ZeroStats EXCEPT !.total = N, !.success = N])

\* C33: a 200 response whose content fails every step of the extraction
\* chain (_parse_success_response returns None, universal_llm.py 149 and
\* 158) is counted in stats.json_error and gets a row in the error file.
C33_ParseFailureIsJsonError ==
    (Classified /\ last_iter.result = R("None", "parse_failed", {})) =>
        /\ Did.json_error = 1
        /\ Did.err_row

\* C35: in a fresh run, at every checkpoint stats.success of the progress
\* file equals the number of rows appended to the output file since the run
\* started.
C35_SuccessEqualsRows ==
    (run = 1 /\ pc = "read" /\ batch_no >= 1) =>
        /\ progress_file.status = "complete"
        /\ progress_file.stats.success = last_iter.out_rows

\* C36: for a CSV input, as long as no run has started beyond the
\* checkpoint, stats.total of every checkpoint is last_position minus the
\* offset at which the first of the runs started (start position s: offset
\* s - 1); so is the pair a run loads, and the pair in memory between two
\* batches.
C36_TotalMatchesOffset ==
    (file_ext = ".csv" /\ origin # -1) =>
        /\ progress_file.status = "complete" =>
               progress_file.stats.total = progress_file.last_position - origin
        /\ pc = "read" => stats.total = current_pos - origin

\* a second run has resumed from the checkpoint of an interrupted first run,
\* with a later start position that is not beyond it, and has checkpointed
C36_Witness ==
    /\ file_ext = ".csv"
    /\ run = 2
    /\ ~same_args
    /\ origin = 0
    /\ loaded_pos >= 1
    /\ batch_no >= 1
    /\ pc = "read"
    /\ progress_file.status = "complete"
    /\ progress_file.last_position > loaded_pos
    /\ progress_file.stats.total = progress_file.last_position

\* C37: a run started again, with the same start position, on a file whose
\* previous run went to the end of its loop leaves the progress file as it
\* is and comes to the loop in a state where the
\* first test of the loop breaks: no batch is dispatched, nothing is appended
\* and no checkpoint is written.
C37_RerunIsNoOp ==
    [][(/\ pc = "done"
        /\ pc' = "read"
        /\ start_pos' = start_pos) =>
           /\ LoopEndsAt(ReadFileBatch(current_pos', batch_size), current_pos')
           /\ progress_file' = progress_file
           /\ dispatched' = {}
           /\ progress_file.status = "complete" =>
                  (current_pos' >= progress_file.last_position /\ stats' = progress_file.stats)]_vars

\* the second run, on a file whose rows were all checkpointed by the first,
\* has ended without a batch and with the progress file it found
C37_Witness ==
    /\ run = 2
    /\ pc = "done"
    /\ same_args
    /\ Len(file_lines) >= 2
    /\ loaded_pos = Len(file_lines)
    /\ dispatched = {}
    /\ batch_no = 0
    /\ progress_file.status = "complete"
    /\ progress_file.last_position = loaded_pos
    /\ progress_file.stats = stats
    /\ stats.total = Len(file_lines)

\* C28: the checkpoint write is atomic with respect to interruption: the
\* progress file a run finds when it starts (the process is not running: it
\* has not started yet, was interrupted, or has finished) is absent or a
\* complete checkpoint, never an empty or partial file.
C28_CheckpointAtomic ==
    pc \in {"idle", "done"} => progress_file.status # "partial"

\* C29: with an end position configured no record at a 0-based offset
\* >= end_pos is dispatched, and the last_position of a checkpoint never
\* exceeds end_pos.
C29_StopsAtEndPos ==
    end_pos # 0 =>
        /\ \A j \in dispatched : j < end_pos
        /\ progress_file.status = "complete" =>
               progress_file.last_position <= end_pos

\* C30: in a run over a line-delimited JSON input no record is dispatched
\* twice: a batch that is read holds no offset the run has dispatched before.
C30_JsonDispatchedOnce ==
    [][(file_ext = ".json" /\ pc = "read" /\ pc' = "await") =>
           Range(items') \cap dispatched = {}]_vars

\* ========================================================== the provider
\* UniversalLLMProvider.process_request for the tasks of a batch. A call
\* chain is: "acquire" (at "async with self.semaphore"), "post" (the HTTP
\* request is in flight), "sleep" (asyncio.sleep(retry_delay) in
\* _handle_retry), "returned". The retry calls process_request again from
\* inside the "async with" of the caller, so a chain at retry_count n holds n
\* slots while it waits for the next one and n + 1 while in "post" or "sleep".
PipeIdle ==
    /\ file_ext = ".csv"
    /\ file_lines = <<>>
    /\ batch_size = 1
    /\ pc = "idle"
    /\ start_pos = 1
    /\ end_pos = 0
    /\ current_pos = 0
    /\ stats = ZeroStats
    /\ output_headers = NoHeaders
    /\ items = <<>>
    /\ results = <<>>
    /\ k = 1
    /\ batch_no = 0
    /\ progress_file = NoProgress
    /\ run = 0
    /\ read_pos = 0
    /\ loaded_pos = -1
    /\ dispatched = {}
    /\ handled = {}
    /\ same_args = TRUE
    /\ origin = -1
    /\ last_written = -1
    /\ last_iter = NoLast

RetryableStatus == {429, 503, 502, 504}
OtherStatus == {400, 500}

NewRequest ==
    [state |-> "acquire", retry_count |-> 0, attempts |-> 0, only503 |-> TRUE,
     result |-> "-", too_long |-> FALSE, only_raises |-> TRUE, delays |-> <<>>,
     last |-> "-"]

SlotsHeld(r) ==
    CASE r.state \in {"post", "sleep"} -> r.retry_count + 1
      [] r.state = "acquire" -> r.retry_count
      [] OTHER -> 0

InFlight == {t \in DOMAIN req : req[t].state = "post"}

\* process_request returns to the gather: every "async with self.semaphore"
\* of the chain exits and releases its slot
Returned(r, res) == [r EXCEPT !.state = "returned", !.result = res]

\* the cap of the backoff (universal_llm.py 174), in seconds
Cap == 10

\* (mutant) the backoff without its cap
RetryDelayUncapped(n) == 2 ^ n * retry_interval

\* universal_llm.py 174: retry_delay = min(2 ** retry_count * self.retry_interval, 10)
\* (llm_batch_call_round2.py 530 has the same formula over attempt and sleep_time)
RetryDelay(n) == Min(2 ^ n * retry_interval, Cap)

\* the call sleeps retry_delay before its next attempt
Sleeping(r) ==
    [r EXCEPT !.state = "sleep", !.delays = Append(@, RetryDelay(r.retry_count))]

\* an attempt got an HTTP response: not every attempt of the call has raised
Responded(r) == [r EXCEPT !.only_raises = FALSE]

\* (mutant) an exception of session.post ends the call at once
NoRetryAfterException(r) == FALSE

\* universal_llm.py 84-92: the except clause hands the exception to _handle_retry
RetryAfterException(r) == r.retry_count < max_retries

\* (mutant) the first attempt is counted as a retry
MayRetryOneLess(r) == r.retry_count < max_retries - 1

\* _handle_retry (universal_llm.py 173): retry, or give up with None
MayRetry(r) == r.retry_count < max_retries

\* (mutant) the request is sent without waiting for a slot
SlotAlwaysFree == TRUE

\* asyncio.Semaphore: "async with self.semaphore" enters when a slot is free
SlotFree == semaphore > 0

\* n requests, any of them for a record whose system and user text are over
\* the token limit by the estimate of check_input_length
\* (llm_batch_call_round2.py 98-106)
RequestsOfAnyLength(n) ==
    {[t \in 1..n |-> [NewRequest EXCEPT !.too_long = b[t]]] : b \in [1..n -> BOOLEAN]}

\* the requests of one batch in ProvSpec: the length of a record is drawn
\* where it is read, in the script; process_request never looks at it
NewRequests(n) ==
    IF impl = "script" THEN RequestsOfAnyLength(n) ELSE {[t \in 1..n |-> NewRequest]}

ProvInit ==
    /\ PipeIdle
    /\ ParseIdle
    /\ DirIdle
    /\ AuxIdle
    /\ impl \in {"provider", "script"}
    /\ max_retries \in 0..MaxRetries
    /\ concurrent_limit \in 1..MaxLimit
    /\ retry_interval \in {IntervalStep * i : i \in 0..MaxInterval}
    /\ semaphore = concurrent_limit
    /\ \E n \in 1..MaxTasks : req \in NewRequests(n)
    /\ prov_batches = 1

\* universal_llm.py 59-75: a slot is taken and the request is sent
Acquire(t) ==
    /\ impl = "provider"
    /\ req[t].state = "acquire"
    /\ SlotFree
    /\ semaphore' = semaphore - 1
    /\ req' = [req EXCEPT ![t].state = "post", ![t].attempts = @ + 1]
    /\ UNCHANGED <<pipeVars, parseVars, dirVars, auxVars, max_retries, concurrent_limit, retry_interval,
                   prov_batches, impl>>

\* universal_llm.py 103-105: status 200, _parse_success_response gives the
\* parsed payload or None
Respond200(t, res) ==
    /\ impl = "provider"
    /\ req[t].state = "post"
    /\ semaphore' = semaphore + SlotsHeld(req[t])
    /\ req' = [req EXCEPT ![t] = Returned(Responded([@ EXCEPT !.only503 = FALSE,
                                                             !.last = "200"]), res)]
    /\ UNCHANGED <<pipeVars, parseVars, dirVars, auxVars, max_retries, concurrent_limit, retry_interval,
                   prov_batches, impl>>

\* universal_llm.py 107-117 and 164-185: a retryable status
RespondRetryable(t, status) ==
    /\ impl = "provider"
    /\ req[t].state = "post"
    /\ LET r == Responded([req[t] EXCEPT !.only503 = @ /\ status = 503,
                                         !.last = "retryable"])
       IN  IF MayRetry(r)
           THEN /\ req' = [req EXCEPT ![t] = Sleeping(r)]
                /\ UNCHANGED semaphore
           ELSE /\ req' = [req EXCEPT ![t] = Returned(r, "None")]
                /\ semaphore' = semaphore + SlotsHeld(req[t])
    /\ UNCHANGED <<pipeVars, parseVars, dirVars, auxVars, max_retries, concurrent_limit, retry_interval,
                   prov_batches, impl>>

\* universal_llm.py 119-123: any other status, None without a retry
RespondOther(t) ==
    /\ impl = "provider"
    /\ req[t].state = "post"
    /\ semaphore' = semaphore + SlotsHeld(req[t])
    /\ req' = [req EXCEPT ![t] = Returned(Responded([@ EXCEPT !.only503 = FALSE,
                                                             !.last = "other"]), "None")]
    /\ UNCHANGED <<pipeVars, parseVars, dirVars, auxVars, max_retries, concurrent_limit, retry_interval,
                   prov_batches, impl>>

\* universal_llm.py 84-92 and 164-185: session.post raises
PostRaises(t) ==
    /\ impl = "provider"
    /\ req[t].state = "post"
    /\ LET r == [req[t] EXCEPT !.only503 = FALSE, !.last = "raised"]
       IN  IF RetryAfterException(r)
           THEN /\ req' = [req EXCEPT ![t] = Sleeping(r)]
                /\ UNCHANGED semaphore
           ELSE /\ req' = [req EXCEPT ![t] = Returned(r, "None")]
                /\ semaphore' = semaphore + SlotsHeld(req[t])
    /\ UNCHANGED <<pipeVars, parseVars, dirVars, auxVars, max_retries, concurrent_limit, retry_interval,
                   prov_batches, impl>>

\* universal_llm.py 103-104 and 84-92: status 200 with a body that is not
\* JSON: "await response.json()" raises inside the try of process_request and
\* the except clause hands the exception to _handle_retry
Respond200Raises(t) ==
    /\ impl = "provider"
    /\ req[t].state = "post"
    /\ LET r == Responded([req[t] EXCEPT !.only503 = FALSE, !.last = "200"])
       IN  IF RetryAfterException(r)
           THEN /\ req' = [req EXCEPT ![t] = Sleeping(r)]
                /\ UNCHANGED semaphore
           ELSE /\ req' = [req EXCEPT ![t] = Returned(r, "None")]
                /\ semaphore' = semaphore + SlotsHeld(req[t])
    /\ UNCHANGED <<pipeVars, parseVars, dirVars, auxVars, max_retries, concurrent_limit, retry_interval,
                   prov_batches, impl>>

\* universal_llm.py 176-182: the sleep ends, process_request(retry_count + 1)
RetryCall(t) ==
    /\ impl = "provider"
    /\ req[t].state = "sleep"
    /\ req' = [req EXCEPT ![t].state = "acquire", ![t].retry_count = @ + 1]
    /\ UNCHANGED <<pipeVars, parseVars, dirVars, auxVars, semaphore, max_retries, concurrent_limit, retry_interval,
                   prov_batches, impl>>

\* processor.py 519-544: the gather has returned and the next batch (of this
\* file or of the next file) is dispatched on the same provider
NextBatch(n) ==
    /\ impl = "provider"
    /\ \A t \in DOMAIN req : req[t].state = "returned"
    /\ prov_batches < MaxProvBatches
    /\ prov_batches' = prov_batches + 1
    /\ req' \in NewRequests(n)
    /\ UNCHANGED <<pipeVars, parseVars, dirVars, auxVars, semaphore, max_retries, concurrent_limit,
                   retry_interval, impl>>

\* ---- the standalone script llm_batch_call_round2.py
ScriptResponses ==
    {"200_parsed", "200_empty", "200_unparsed", "200_not_json", "503", "500",
     "raises"}

\* llm_batch_call_round2.py 529, 540, 551, 565, 574: another iteration follows
ScriptMayRetry(r) == r.retry_count < max_retries - 1

\* llm_batch_call_round2.py 498-521: the slot is taken once; a record over the
\* token limit (500-506), or an empty range(max_retries), returns without a
\* request (the slot is released in the same step); otherwise the first
\* request is sent
ScriptEnter(t) ==
    /\ impl = "script"
    /\ req[t].state = "acquire"
    /\ SlotFree
    /\ IF req[t].too_long \/ max_retries = 0
       THEN /\ req' = [req EXCEPT ![t] = Returned(@, IF req[t].too_long
                                                     THEN "TokenLimitExceeded"
                                                     ELSE "None")]
            /\ UNCHANGED semaphore
       ELSE /\ req' = [req EXCEPT ![t].state = "post", ![t].attempts = @ + 1]
            /\ semaphore' = semaphore - 1
    /\ UNCHANGED <<pipeVars, parseVars, dirVars, auxVars, max_retries, concurrent_limit, retry_interval,
                   prov_batches, impl>>

\* llm_batch_call_round2.py 523-580: the response of one iteration; only a
\* parsed 200 returns a result, every other outcome sleeps and continues
\* while attempt < max_retries - 1 and returns (None, error) otherwise
ScriptRespond(t, out) ==
    /\ impl = "script"
    /\ req[t].state = "post"
    /\ LET r == [req[t] EXCEPT !.only503 = @ /\ out = "503",
                             !.only_raises = @ /\ out = "raises"]
       IN  IF out = "200_parsed"
           THEN /\ req' = [req EXCEPT ![t] = Returned(r, "parsed")]
                /\ semaphore' = semaphore + 1
           ELSE IF ScriptMayRetry(r)
           THEN /\ req' = [req EXCEPT ![t] = Sleeping(r)]
                /\ UNCHANGED semaphore
           ELSE /\ req' = [req EXCEPT ![t] = Returned(r, "None")]
                /\ semaphore' = semaphore + 1
    /\ UNCHANGED <<pipeVars, parseVars, dirVars, auxVars, max_retries, concurrent_limit, retry_interval,
                   prov_batches, impl>>

\* llm_batch_call_round2.py 508-523: the sleep ends and the next iteration
\* sends its request, still inside the one "async with semaphore"
ScriptContinue(t) ==
    /\ impl = "script"
    /\ req[t].state = "sleep"
    /\ req' = [req EXCEPT ![t].state = "post", ![t].retry_count = @ + 1,
                          ![t].attempts = @ + 1]
    /\ UNCHANGED <<pipeVars, parseVars, dirVars, auxVars, semaphore, max_retries, concurrent_limit, retry_interval,
                   prov_batches, impl>>

\* llm_batch_call_round2.py 651-656 and 855-878: the gather has returned and
\* the next batch is dispatched on the semaphore created once in main
ScriptNextBatch(n) ==
    /\ impl = "script"
    /\ \A t \in DOMAIN req : req[t].state = "returned"
    /\ prov_batches < MaxProvBatches
    /\ prov_batches' = prov_batches + 1
    /\ req' \in NewRequests(n)
    /\ UNCHANGED <<pipeVars, parseVars, dirVars, auxVars, semaphore, max_retries, concurrent_limit,
                   retry_interval, impl>>

ProvNext ==
    \/ \E t \in DOMAIN req : Acquire(t)
    \/ \E t \in DOMAIN req, res \in {"parsed", "None"} : Respond200(t, res)
    \/ \E t \in DOMAIN req, status \in RetryableStatus : RespondRetryable(t, status)
    \/ \E t \in DOMAIN req : RespondOther(t)
    \/ \E t \in DOMAIN req : PostRaises(t)
    \/ \E t \in DOMAIN req : Respond200Raises(t)
    \/ \E t \in DOMAIN req : RetryCall(t)
    \/ \E n \in 1..MaxTasks : NextBatch(n)
    \/ \E t \in DOMAIN req : ScriptEnter(t)
    \/ \E t \in DOMAIN req, out \in ScriptResponses : ScriptRespond(t, out)
    \/ \E t \in DOMAIN req : ScriptContinue(t)
    \/ \E n \in 1..MaxTasks : ScriptNextBatch(n)

ProvSpec == ProvInit /\ [][ProvNext]_vars

\* ------------------------------------------------ claims on the provider
\* C7: with UniversalLLMProvider at most concurrent_limit HTTP requests are
\* in flight, and the semaphore never goes below zero (a request is sent only
\* with a slot).
C7_ConcurrencyBound ==
    impl = "provider" =>
        /\ Cardinality(InFlight) <= concurrent_limit
        /\ semaphore >= 0

C7_Witness ==
    /\ impl = "provider"
    /\ Cardinality(InFlight) = concurrent_limit
    /\ semaphore = 0
    /\ \E t \in DOMAIN req : req[t].state = "acquire" /\ req[t].retry_count = 0
    /\ \A t \in DOMAIN req : req[t].retry_count = 0

\* a record that was sent to the remote service and got nothing but 503
Only503(t) == req[t].attempts >= 1 /\ req[t].only503

\* C10 as stated: a record answered only by 503 has made max_retries attempts.
C10_AttemptsEqualMaxRetries ==
    \A t \in DOMAIN req :
        (req[t].state = "returned" /\ Only503(t)) => req[t].attempts = max_retries

\* C10 as amended: through UniversalLLMProvider a record answered only by 503
\* never makes more than max_retries + 1 attempts, and has made exactly
\* max_retries + 1 (the first attempt and max_retries retries) when the call
\* returns None; in the standalone script the numbers are max_retries.
C10_AttemptsEqualMaxRetriesPlusOne ==
    LET limit == IF impl = "provider" THEN max_retries + 1 ELSE max_retries
    IN  \A t \in DOMAIN req :
            /\ Only503(t) => req[t].attempts <= limit
            /\ (req[t].state = "returned" /\ Only503(t))
                  => (req[t].attempts = limit /\ req[t].result = "None")

C10_Witness ==
    /\ impl = "provider"
    /\ max_retries >= 1
    /\ \E t \in DOMAIN req :
           /\ req[t].state = "returned"
           /\ Only503(t)
           /\ req[t].attempts = max_retries + 1

\* C11: through UniversalLLMProvider (retry_interval >= 0) the delay slept
\* before retry number n (from 0) is min(2^n * retry_interval, 10): the delays
\* of a call never exceed the cap, never decrease, and there are at most
\* max_retries of them.
C11_BackoffDelays ==
    impl = "provider" =>
        \A t \in DOMAIN req :
            LET d == req[t].delays
            IN  /\ Len(d) <= max_retries
                /\ Len(d) = IF req[t].state = "sleep" THEN req[t].retry_count + 1
                            ELSE req[t].retry_count
                /\ \A i \in DOMAIN d :
                       /\ d[i] = Min(2 ^ (i - 1) * retry_interval, 10)
                       /\ d[i] <= 10
                       /\ i > 1 => d[i - 1] <= d[i]

\* a call has slept twice, the second time for the cap
C11_Witness ==
    /\ impl = "provider"
    /\ \E t \in DOMAIN req :
           /\ Len(req[t].delays) = 2
           /\ req[t].delays[1] < req[t].delays[2]
           /\ req[t].delays[2] = 10
           /\ 2 * retry_interval > 10

\* the end of a call that used its whole retry budget
Exhausted(t) ==
    /\ req[t].attempts = max_retries + 1
    /\ req[t].retry_count = max_retries
    /\ req[t].result = "None"
    /\ req[t].delays = [i \in 1..max_retries |-> Min(2 ^ (i - 1) * retry_interval, 10)]

\* C14: a call whose every attempt raised goes the way of a call whose every
\* attempt got 503: one retry counter, at most max_retries + 1 attempts, the
\* same delays, and None after exactly max_retries retries.
C14_ExceptionLikeRetryable ==
    impl = "provider" =>
        \A t \in DOMAIN req :
            (req[t].attempts >= 1 /\ (req[t].only_raises \/ req[t].only503)) =>
                /\ req[t].attempts <= max_retries + 1
                /\ req[t].state \in {"post", "sleep"} => req[t].attempts = req[t].retry_count + 1
                /\ \A i \in DOMAIN req[t].delays :
                       req[t].delays[i] = Min(2 ^ (i - 1) * retry_interval, 10)
                /\ req[t].state = "returned" => Exhausted(t)

\* a call that only met exceptions and a call that only met 503 have both
\* returned, after the same attempts and delays
C14_Witness ==
    /\ impl = "provider"
    /\ max_retries >= 1
    /\ retry_interval > 0
    /\ \E t, u \in DOMAIN req :
           /\ req[t].state = "returned" /\ req[t].only_raises /\ Exhausted(t)
           /\ req[u].state = "returned" /\ req[u].only503 /\ Exhausted(u)
           /\ req[t].delays = req[u].delays

\* C34: through UniversalLLMProvider a further request for a record is sent
\* only after a response with status 429, 502, 503 or 504 or after an
\* exception of the HTTP call: a call that waits to send again, or has sent
\* again, did not get status 200 on its last attempt.
C34_NoRequestAfter200 ==
    impl = "provider" =>
        \A t \in DOMAIN req :
            /\ req[t].state = "sleep" => req[t].last \in {"retryable", "raised"}
            /\ (req[t].state \in {"acquire", "post"} /\ req[t].retry_count > 0) =>
                   req[t].last \in {"retryable", "raised"}

\* ProvSpec under fair scheduling: the event loop runs a coroutine that can
\* run, every HTTP call gets its response or raises, every sleep ends.
FairProvSpec == ProvSpec /\ WF_vars(ProvNext)

\* C27: under fair scheduling every batch completes: again and again every
\* process_request call of the batch in progress has returned, so the gather
\* returns and the file's processing goes on to its end.
C27_BatchCompletes ==
    []<>(\A t \in DOMAIN req : req[t].state = "returned")

\* The requests of one batch, of any length, through either implementation.
GuardInit ==
    /\ PipeIdle
    /\ ParseIdle
    /\ DirIdle
    /\ AuxIdle
    /\ impl \in {"provider", "script"}
    /\ max_retries \in 0..MaxRetries
    /\ concurrent_limit \in 1..MaxLimit
    /\ retry_interval = 0
    /\ semaphore = concurrent_limit
    /\ \E n \in 1..MaxTasks : req \in RequestsOfAnyLength(n)
    /\ prov_batches = 1

GuardNext ==
    \/ \E t \in DOMAIN req : Acquire(t)
    \/ \E t \in DOMAIN req, res \in {"parsed", "None"} : Respond200(t, res)
    \/ \E t \in DOMAIN req, status \in RetryableStatus : RespondRetryable(t, status)
    \/ \E t \in DOMAIN req : RespondOther(t)
    \/ \E t \in DOMAIN req : PostRaises(t)
    \/ \E t \in DOMAIN req : Respond200Raises(t)
    \/ \E t \in DOMAIN req : RetryCall(t)
    \/ \E t \in DOMAIN req : ScriptEnter(t)
    \/ \E t \in DOMAIN req, out \in ScriptResponses : ScriptRespond(t, out)
    \/ \E t \in DOMAIN req : ScriptContinue(t)

GuardSpec == GuardInit /\ [][GuardNext]_vars

\* C23: for a record whose estimated token count is over the configured
\* maximum no HTTP request is ever made, and its call returns the error
\* TokenLimitExceeded.
C23_TokenGuard ==
    \A t \in DOMAIN req :
        req[t].too_long =>
            /\ req[t].attempts = 0
            /\ req[t].state = "returned" => req[t].result = "TokenLimitExceeded"

\* ============================================ parsing a 200 response
\* The content of choices[0].message.content as a sequence of tokens: a
\* fence (three backquotes), the braces of a JSON object (an object when they are adjacent), a
\* number literal, and text that is no JSON.
MaxContent == 4
Tokens == {"fence", "{", "}", "1", "x"}
Contents == UNION {[1..n -> Tokens] : n \in 0..MaxContent}
Bodies == [has_choices : BOOLEAN, content : Contents, has_fields : BOOLEAN]

\* json.loads: an object, a number, or JSONDecodeError
JsonLoads(c) ==
    IF c = <<"{", "}">> THEN "dict"
    ELSE IF c # <<>> /\ \A i \in DOMAIN c : c[i] = "1" THEN "number"
    ELSE "error"

Positions(c, tok) == {i \in DOMAIN c : c[i] = tok}
First(S) == CHOOSE i \in S : \A j \in S : i <= j
Last(S) == CHOOSE i \in S : \A j \in S : i >= j

\* re.search of the fenced-block pattern (universal_llm.py 138-139), non-greedy:
\* the text between the first fence and the next one
FencedBlock(c) ==
    LET f == Positions(c, "fence")
    IN  IF Cardinality(f) >= 2
        THEN [found |-> TRUE, inner |-> SubSeq(c, First(f) + 1, First(f \ {First(f)}) - 1)]
        ELSE [found |-> FALSE, inner |-> <<>>]

\* content[content.find('{') : content.rfind('}') + 1]
BraceSlice(c) ==
    IF Positions(c, "{") = {} \/ Positions(c, "}") = {} THEN <<>>
    ELSE SubSeq(c, First(Positions(c, "{")), Last(Positions(c, "}")))

\* the value returned for a parse: None on JSONDecodeError
OrNone(v) == IF v = "error" THEN "None" ELSE v

\* UniversalLLMProvider._parse_success_response (universal_llm.py 125-162)
ParseSuccessResponse(b) ==
    IF ~b.has_choices THEN "None"
    ELSE IF FencedBlock(b.content).found
    THEN OrNone(JsonLoads(FencedBlock(b.content).inner))
    ELSE OrNone(JsonLoads(b.content))

\* parse_llm_response (llm_batch_call_round2.py 582-649): the whole content,
\* validated against the required fields, else the slice between the braces
ParseLlmResponse(b) ==
    IF ~b.has_choices \/ b.content = <<>> THEN "None"
    ELSE CASE JsonLoads(b.content) = "dict" ->
                  IF b.has_fields THEN "dict" ELSE "None"
           [] JsonLoads(b.content) = "number" -> "None"
           [] OTHER -> OrNone(JsonLoads(BraceSlice(b.content)))

ParseInit ==
    /\ PipeIdle
    /\ ProvIdle
    /\ DirIdle
    /\ AuxIdle
    /\ body \in Bodies
    /\ parser \in {"provider", "script"}
    /\ parsed = "-"

ProviderParse ==
    /\ parser = "provider"
    /\ parsed = "-"
    /\ parsed' = ParseSuccessResponse(body)
    /\ UNCHANGED <<pipeVars, provVars, dirVars, auxVars, body, parser>>

ScriptParse ==
    /\ parser = "script"
    /\ parsed = "-"
    /\ parsed' = ParseLlmResponse(body)
    /\ UNCHANGED <<pipeVars, provVars, dirVars, auxVars, body, parser>>

ParseNext == ProviderParse \/ ScriptParse

ParseSpec == ParseInit /\ [][ParseNext]_vars

\* C15: the content of a 200 response goes through three steps, the first
\* success wins: the fenced block if there is one, else the whole content,
\* else the slice from the first "{" to the last "}". Fenced JSON, bare JSON
\* and JSON inside other text give the same object; content without braces
\* gives a parse error.
C15_ThreeStepChain ==
    (parsed # "-" /\ body.has_choices /\ body.has_fields) =>
        LET c == body.content
            f == FencedBlock(c)
        IN  /\ (f.found /\ JsonLoads(f.inner) = "dict") => parsed = "dict"
            /\ (~f.found /\ JsonLoads(c) = "dict") => parsed = "dict"
            /\ (~f.found /\ JsonLoads(BraceSlice(c)) = "dict") => parsed = "dict"
            /\ (Positions(c, "{") = {} \/ Positions(c, "}") = {}) => parsed = "None"

\* ================================================ directory mode
\* process_files: the prompt file is loaded, then the sorted input files are
\* processed one after the other. What goes wrong with a file:
\*   "open_fails"       open() raises while the lines are counted (processor.py 424, 435)
\*   "excel_unreadable" pd.read_excel raises while the rows are counted (446-453)
\*   "read_raises"      read_file_batch raises after `batches` good batches: no
\*                      encoding decodes the CSV (file_utils.py 66-74), or the
\*                      JSON file is not UTF-8 (37-42)
\* The batches of a file are one step each here; Spec has their detail.
MaxFiles == 2
MaxFileBatches == 1
Faults == {"none", "open_fails", "excel_unreadable", "read_raises"}
FileKinds == [fault : Faults, batches : 0..MaxFileBatches]

\* the three parts a prompt file must have (prompt_parser.py 40, 101)
RequiredParts == {"system", "task", "output"}

\* A prompt file: absent, or a .json file (a document that parses or not, the
\* keys it has) or a file of any other suffix read as sectioned text (the
\* section headers it has).
Prompts ==
    {[exists |-> FALSE]}
    \cup [exists : {TRUE}, suffix : {".json"}, well_formed : BOOLEAN,
          parts : SUBSET RequiredParts]
    \cup [exists : {TRUE}, suffix : {".txt"}, well_formed : {TRUE},
          parts : SUBSET RequiredParts]

\* PromptParser.parse_prompt_file (prompt_parser.py 11-106): the exception
\* it raises, or "ok"
ParsePromptFile(p) ==
    IF ~p.exists THEN "FileNotFoundError"
    ELSE IF ~p.well_formed THEN "ValueError"
    ELSE IF RequiredParts \ p.parts # {} THEN "ValueError"
    ELSE "ok"

\* (mutant) process_files goes on to the input files after the error
GoesOnAfterPromptError == "setup"

\* processor.py 47-49: "except Exception as e: Logger.error(...); return"
AfterPromptError == "returned"

\* processor.py 457-459: "except Exception as e: Logger.error(...); raise"
CountRaises(f) == f.fault \in {"open_fails", "excel_unreadable"}

DirInit ==
    /\ PipeIdle
    /\ ProvIdle
    /\ ParseIdle
    /\ AuxIdle
    /\ \E n \in 1..MaxFiles :
           /\ input_files \in [1..n -> FileKinds]
           /\ file_state = [i \in 1..n |-> "pending"]
    /\ file_idx = 1
    /\ dir_pc = "prompt"
    /\ file_batches = 0
    /\ prompt \in Prompts
    /\ dir_effects = {}

\* processor.py 41-49: the prompt file is parsed and rendered
LoadPrompt ==
    /\ dir_pc = "prompt"
    /\ dir_pc' = IF ParsePromptFile(prompt) = "ok" THEN "setup" ELSE AfterPromptError
    /\ UNCHANGED <<pipeVars, provVars, parseVars, auxVars, input_files, file_idx,
                   file_batches, file_state, prompt, dir_effects>>

\* the step of "for file_path in input_files" to the next file, or its end
NextFile ==
    /\ file_idx' = file_idx + 1
    /\ file_batches' = 0
    /\ dir_pc' = IF file_idx + 1 > Len(input_files) THEN "finished" ELSE "setup"

\* processor.py 360-503: paths, backups, and the count of the lines; an
\* exception of the count is logged and raised again: it leaves
\* _process_single_file, process_files (no handler, 61-68) and main (80-82).
\* Otherwise the progress file is loaded and the header of the error file
\* written (497-500).
CountLines ==
    /\ dir_pc = "setup"
    /\ IF CountRaises(input_files[file_idx])
       THEN /\ dir_pc' = "crashed"
            /\ file_state' = [file_state EXCEPT ![file_idx] = "raised"]
            /\ UNCHANGED dir_effects
       ELSE /\ dir_pc' = "loop"
            /\ dir_effects' = dir_effects \cup {"tables"}
            /\ UNCHANGED file_state
    /\ UNCHANGED <<pipeVars, provVars, parseVars, auxVars, input_files, file_idx,
                   file_batches, prompt>>

\* processor.py 519-912: one batch is read, its requests made, its results
\* written and the checkpoint taken
FileBatch ==
    /\ dir_pc = "loop"
    /\ file_batches < input_files[file_idx].batches
    /\ file_batches' = file_batches + 1
    /\ dir_effects' = dir_effects \cup {"request", "tables", "progress"}
    /\ UNCHANGED <<pipeVars, provVars, parseVars, auxVars, input_files, file_idx,
                   dir_pc, file_state, prompt>>

\* processor.py 521-526 and 922-926: read_file_batch raises, the handler
\* logs and returns; process_files goes on
FileReadRaises ==
    /\ dir_pc = "loop"
    /\ file_batches = input_files[file_idx].batches
    /\ input_files[file_idx].fault = "read_raises"
    /\ file_state' = [file_state EXCEPT ![file_idx] = "failed"]
    /\ NextFile
    /\ UNCHANGED <<pipeVars, provVars, parseVars, auxVars, input_files, prompt,
                   dir_effects>>

\* processor.py 528-529: the read returns nothing more, the file is done
FileEnds ==
    /\ dir_pc = "loop"
    /\ file_batches = input_files[file_idx].batches
    /\ input_files[file_idx].fault = "none"
    /\ file_state' = [file_state EXCEPT ![file_idx] = "done"]
    /\ NextFile
    /\ UNCHANGED <<pipeVars, provVars, parseVars, auxVars, input_files, prompt,
                   dir_effects>>

DirNext == LoadPrompt \/ CountLines \/ FileBatch \/ FileReadRaises \/ FileEnds

DirSpec == DirInit /\ [][DirNext]_vars

\* C17: whatever goes wrong with one input file, the run is not terminated
\* and process_files gets to every other file.
C17_FileFailureStaysLocal ==
    /\ dir_pc # "crashed"
    /\ dir_pc = "finished" =>
          \A i \in DOMAIN file_state : file_state[i] \in {"done", "failed"}

\* C26: with a prompt file that lacks one of the parts system, task and
\* output, loading fails and process_files returns at once: no input file
\* is taken up, no request is made and no output, error or progress file is
\* written.
C26_MissingPartStopsRun ==
    (prompt.exists /\ RequiredParts \ prompt.parts # {}) =>
        /\ ParsePromptFile(prompt) = "ValueError"
        /\ dir_pc \in {"prompt", "returned"}
        /\ dir_effects = {}
        /\ file_batches = 0
        /\ \A i \in DOMAIN file_state : file_state[i] = "pending"

\* process_files has returned on a text prompt without its output section
C26_Witness ==
    /\ dir_pc = "returned"
    /\ prompt.exists
    /\ prompt.suffix = ".txt"
    /\ prompt.parts = {"system", "task"}
    /\ Len(input_files) >= 1
    /\ input_files[1].fault = "none"

\* ================================================ the output files
\* The success table, raw log, failure table and progress file of one input
\* file over one run: of _process_single_file (through process_files), or of
\* retry_failed_records, the other method of BatchProcessor that writes them.
MaxOld == 2         \* lines a file has before the run
MaxWrites == 2      \* appends and rewrites of one run

Old(n) == [i \in 1..n |-> "old"]

\* open(f, 'a') and one line written
OpenAppend(d) ==
    [d EXCEPT !.exists = TRUE, !.lines = Append(@, "new"), !.written = TRUE]

\* open(f, 'w') and one line written: what the file held is gone
OpenWrite(d) == [d EXCEPT !.exists = TRUE, !.lines = <<"new">>, !.written = TRUE]

\* processor.py 598-607 (and 654-662, 716-732, 773-782, 818-827; 267-276 and
\* 308-317 in the retry): the header with open(output_file, 'w') only when
\* the file does not exist, then the row with open(output_file, 'a')
WriteOutput(d) == IF d.exists THEN OpenAppend(d) ELSE OpenAppend(OpenWrite(d))

DiskInit ==
    /\ PipeIdle
    /\ ProvIdle
    /\ ParseIdle
    /\ DirIdle
    /\ WriteIdle
    /\ TwinIdle
    /\ RetryIdle
    /\ ResumeIdle
    /\ disk \in [Files -> {Absent} \cup
                   {[exists |-> TRUE, lines |-> Old(n), orig |-> n, written |-> FALSE] :
                       n \in 0..MaxOld}]
    /\ backups = {}
    /\ disk_pc = "start"
    /\ disk_mode \in {"process", "retry"}
    /\ disk_ext \in {".csv", ".json"}
    /\ disk_writes = 0

\* processor.py 387-397: every one of the four files that exists is copied
\* to backups/ under a timestamped name
BackupExisting ==
    /\ disk_pc = "start"
    /\ disk_mode = "process"
    /\ backups' = {f \in Files : disk[f].exists}
    /\ disk_pc' = "header"
    /\ UNCHANGED <<pipeVars, provVars, parseVars, dirVars, writeVars, sideVars, disk, disk_mode,
                   disk_ext, disk_writes>>

\* processor.py 497-500: the header of a CSV error file that does not exist
ErrorHeader ==
    /\ disk_pc = "header"
    /\ disk' = IF disk_ext = ".csv" /\ ~disk["error"].exists
               THEN [disk EXCEPT !["error"] = OpenWrite(@)]
               ELSE disk
    /\ disk_pc' = "loop"
    /\ UNCHANGED <<pipeVars, provVars, parseVars, dirVars, writeVars, sideVars, backups, disk_mode,
                   disk_ext, disk_writes>>

\* processor.py 109-112 and 118-161: no error file, or no row in it to retry
\* (a CSV error file starts with its header line), ends the retry; otherwise
\* the error file, and no other file, is copied
RetryBackup ==
    /\ disk_pc = "start"
    /\ disk_mode = "retry"
    /\ IF /\ disk["error"].exists
          /\ Len(disk["error"].lines) > (IF disk_ext = ".csv" THEN 1 ELSE 0)
       THEN /\ backups' = {"error"}
            /\ disk_pc' = "clear"
       ELSE /\ disk_pc' = "end"
            /\ UNCHANGED backups
    /\ UNCHANGED <<pipeVars, provVars, parseVars, dirVars, writeVars, sideVars, disk, disk_mode,
                   disk_ext, disk_writes>>

\* processor.py 164-169: the error file is emptied for the new errors, with
\* open(error_file, 'w') and the header, or with error_file.unlink()
RetryClear ==
    /\ disk_pc = "clear"
    /\ disk' = IF disk_ext = ".csv"
               THEN [disk EXCEPT !["error"] = OpenWrite(@)]
               ELSE [disk EXCEPT !["error"] = [@ EXCEPT !.exists = FALSE, !.lines = <<>>,
                                                        !.written = TRUE]]
    /\ disk_pc' = "loop"
    /\ UNCHANGED <<pipeVars, provVars, parseVars, dirVars, writeVars, sideVars, backups, disk_mode,
                   disk_ext, disk_writes>>

\* a line of the raw file (processor.py 587, 650, 712, 769, 814; 256 and 303)
AppendRaw ==
    /\ disk_pc = "loop"
    /\ disk_writes < MaxWrites
    /\ disk' = [disk EXCEPT !["raw"] = OpenAppend(@)]
    /\ disk_writes' = disk_writes + 1
    /\ UNCHANGED <<pipeVars, provVars, parseVars, dirVars, writeVars, sideVars, backups, disk_pc,
                   disk_mode, disk_ext>>

\* a row of the output file
AppendOutput ==
    /\ disk_pc = "loop"
    /\ disk_writes < MaxWrites
    /\ disk' = [disk EXCEPT !["output"] = WriteOutput(@)]
    /\ disk_writes' = disk_writes + 1
    /\ UNCHANGED <<pipeVars, provVars, parseVars, dirVars, writeVars, sideVars, backups, disk_pc,
                   disk_mode, disk_ext>>

\* a row of the error file (processor.py 558-571 and the like; 235-238, 286-289)
AppendError ==
    /\ disk_pc = "loop"
    /\ disk_writes < MaxWrites
    /\ disk' = [disk EXCEPT !["error"] = OpenAppend(@)]
    /\ disk_writes' = disk_writes + 1
    /\ UNCHANGED <<pipeVars, provVars, parseVars, dirVars, writeVars, sideVars, backups, disk_pc,
                   disk_mode, disk_ext>>

\* processor.py 905-912: the progress file is rewritten (the retry has none)
SaveProgress ==
    /\ disk_pc = "loop"
    /\ disk_mode = "process"
    /\ disk_writes < MaxWrites
    /\ disk' = [disk EXCEPT !["progress"] = OpenWrite(@)]
    /\ disk_writes' = disk_writes + 1
    /\ UNCHANGED <<pipeVars, provVars, parseVars, dirVars, writeVars, sideVars, backups, disk_pc,
                   disk_mode, disk_ext>>

\* the loop over the batches ends
DiskRunEnds ==
    /\ disk_pc = "loop"
    /\ disk_pc' = "end"
    /\ UNCHANGED <<pipeVars, provVars, parseVars, dirVars, writeVars, sideVars, disk, backups,
                   disk_mode, disk_ext, disk_writes>>

DiskNext ==
    \/ BackupExisting
    \/ ErrorHeader
    \/ RetryBackup
    \/ RetryClear
    \/ AppendRaw
    \/ AppendOutput
    \/ AppendError
    \/ SaveProgress
    \/ DiskRunEnds

DiskSpec == DiskInit /\ [][DiskNext]_vars

\* what the file held before the run is still its beginning
OldContentKept(f) ==
    /\ disk[f].exists
    /\ Len(disk[f].lines) >= disk[f].orig
    /\ SubSeq(disk[f].lines, 1, disk[f].orig) = Old(disk[f].orig)

\* C21: in every run a file among the four that existed before the run has
\* been copied to the backups directory before the run writes to it, and
\* _process_single_file keeps what the output, raw and error files held
\* before the run as their beginning (it only appends).
C21_BackupBeforeWrite ==
    /\ \A f \in Files : (disk[f].written /\ disk[f].orig >= 0) => f \in backups
    /\ disk_mode = "process" =>
          \A f \in {"output", "raw", "error"} : disk[f].orig >= 0 => OldContentKept(f)

\* ================================================ the appends of a batch
\* The requests of one batch return in any order; the coroutine that awaits
\* the gather then goes through zip(items, results) and appends the lines of
\* each pair: _process_single_file itself (processor.py 544-898), or
\* process_batch_async through OutputManager.write_result and
\* write_failed_result, which take write_lock (llm_batch_call_round2.py
\* 251-352 and 651-689). An append is "with open(path, 'a') as f: ...": the
\* file is open from WOpen to WClose.
MaxWriters == 2     \* records of the batch

\* the files one pair is appended to, in order
Plans ==
    IF w_impl = "processor"
    THEN {<<>>, <<"error">>, <<"raw", "error">>, <<"raw", "output">>,
          <<"raw", "output", "output">>, <<"raw", "output", "error">>}
    ELSE {<<>>, <<"output", "raw">>, <<"failed", "failed_raw">>}

\* (mutant) the file stays open after the with block
LeftOpen(hs, h) == hs

\* the end of "with open(...) as f": the file is closed
CloseOnExit(hs, h) == hs \ {h}

WriteInit ==
    /\ PipeIdle
    /\ ProvIdle
    /\ ParseIdle
    /\ DirIdle
    /\ DiskIdle
    /\ TwinIdle
    /\ RetryIdle
    /\ ResumeIdle
    /\ w_impl \in {"processor", "script"}
    /\ \E n \in 1..MaxWriters : w_results = [i \in 1..n |-> "pending"]
    /\ w_order = <<>>
    /\ w_pc = "await"
    /\ w_k = 1
    /\ w_plan = <<>>
    /\ handles = {}
    /\ write_lock = FALSE
    /\ w_log = <<>>

\* a request of the gather returns (processor.py 544, llm_batch_call_round2.py 657)
WTaskReturns(i) ==
    /\ w_pc = "await"
    /\ i \in DOMAIN w_results
    /\ w_results[i] = "pending"
    /\ w_results' = [w_results EXCEPT ![i] = "returned"]
    /\ w_order' = Append(w_order, i)
    /\ UNCHANGED <<pipeVars, provVars, parseVars, dirVars, diskVars, sideVars, w_impl,
                   w_pc, w_k, w_plan, handles, write_lock, w_log>>

\* the gather returns when every request has returned
WGather ==
    /\ w_pc = "await"
    /\ \A i \in DOMAIN w_results : w_results[i] = "returned"
    /\ w_pc' = "next"
    /\ UNCHANGED <<pipeVars, provVars, parseVars, dirVars, diskVars, sideVars, w_impl,
                   w_results, w_order, w_k, w_plan, handles, write_lock, w_log>>

\* the loop takes the next pair and its branch; the script enters
\* "async with self.write_lock" when the pair has a result to write
WBeginPair(plan) ==
    /\ w_pc = "next"
    /\ w_k <= Len(w_results)
    /\ plan \in Plans
    /\ w_plan' = plan
    /\ IF w_impl = "script" /\ plan # <<>>
       THEN ~write_lock /\ write_lock' = TRUE
       ELSE UNCHANGED write_lock
    /\ w_pc' = "pair"
    /\ UNCHANGED <<pipeVars, provVars, parseVars, dirVars, diskVars, sideVars, w_impl,
                   w_results, w_order, w_k, handles, w_log>>

\* open(path, 'a')
WOpen ==
    /\ w_pc = "pair"
    /\ w_plan # <<>>
    /\ handles' = handles \cup {<<w_k, Head(w_plan)>>}
    /\ w_pc' = "open"
    /\ UNCHANGED <<pipeVars, provVars, parseVars, dirVars, diskVars, sideVars, w_impl,
                   w_results, w_order, w_k, w_plan, write_lock, w_log>>

\* the line is written and the with block ends
WClose ==
    /\ w_pc = "open"
    /\ handles' = CloseOnExit(handles, <<w_k, Head(w_plan)>>)
    /\ w_log' = Append(w_log, w_k)
    /\ w_plan' = Tail(w_plan)
    /\ w_pc' = "pair"
    /\ UNCHANGED <<pipeVars, provVars, parseVars, dirVars, diskVars, sideVars, w_impl,
                   w_results, w_order, w_k, write_lock>>

\* the iteration ends (the script leaves the lock)
WEndPair ==
    /\ w_pc = "pair"
    /\ w_plan = <<>>
    /\ write_lock' = FALSE
    /\ w_k' = w_k + 1
    /\ w_pc' = IF w_k + 1 > Len(w_results) THEN "done" ELSE "next"
    /\ UNCHANGED <<pipeVars, provVars, parseVars, dirVars, diskVars, sideVars, w_impl,
                   w_results, w_order, w_plan, handles, w_log>>

WriteNext ==
    \/ \E i \in 1..MaxWriters : WTaskReturns(i)
    \/ WGather
    \/ \E plan \in Plans : WBeginPair(plan)
    \/ WOpen
    \/ WClose
    \/ WEndPair

WriteSpec == WriteInit /\ [][WriteNext]_vars

\* C24: whatever the order in which the requests of a batch return, at most
\* one file is open for append at any moment, no request is outstanding
\* then, the script holds write_lock then, and the lines are appended pair
\* after pair in the order of the batch.
C24_AppendsExclusive ==
    /\ Cardinality(handles) <= 1
    /\ handles # {} =>
          /\ \A i \in DOMAIN w_results : w_results[i] = "returned"
          /\ w_impl = "script" => write_lock
    /\ \A i, j \in DOMAIN w_log : i < j => w_log[i] <= w_log[j]

\* the second request returned first, the lines of the first pair are
\* written and the output file is open for the row of the second
C24_Witness ==
    /\ w_order = <<2, 1>>
    /\ w_log = <<1, 1>>
    /\ handles = {<<2, "output">>}

\* ================================================ two runs side by side
\* Two runs of _process_single_file, each in its own output directory, over
\* the same input file with the same batch size, start and end position and
\* the same progress file, but with tables (output, raw and error file) of
\* different row counts. twin[t].offsets are the offsets at which run t has
\* read its batches.
MaxTableRows == 1   \* rows of the tables before the runs

\* (mutant) the run resumes after the rows it finds in its tables
ResumeFromTables(t) == twin[t].rows

\* processor.py 461-482: the offset run t starts at
ResumePos(t) == LoadProgress(start_pos).current_pos

TwinInit ==
    /\ \E f \in InputFiles : file_ext = f.ext /\ file_lines = f.lines
    /\ batch_size \in 1..MaxBatch
    /\ start_pos \in StartChoices
    /\ end_pos \in EndChoices
    /\ progress_file \in {NoProgress, PartialProgress}
                          \cup {CompleteProgress(n, ZeroStats) : n \in 0..MaxRows}
    /\ pc = "idle" /\ current_pos = 0 /\ stats = ZeroStats
    /\ output_headers = NoHeaders /\ items = <<>> /\ results = <<>> /\ k = 1
    /\ batch_no = 0 /\ run = 0 /\ read_pos = 0 /\ loaded_pos = -1
    /\ dispatched = {} /\ handled = {} /\ same_args = TRUE /\ origin = -1
    /\ last_written = -1 /\ last_iter = NoLast
    /\ ProvIdle
    /\ ParseIdle
    /\ DirIdle
    /\ DiskIdle
    /\ WriteIdle
    /\ RetryIdle
    /\ ResumeIdle
    /\ \E a, b \in 0..MaxTableRows :
           /\ a # b
           /\ twin = [t \in 1..2 |->
                        [pc |-> "idle", pos |-> 0, offsets |-> <<>>,
                         rows |-> IF t = 1 THEN a ELSE b]]

\* processor.py 461-503: run t loads the progress file
TwinStart(t) ==
    /\ twin[t].pc = "idle"
    /\ twin' = [twin EXCEPT ![t].pc = "read", ![t].pos = ResumePos(t)]
    /\ UNCHANGED <<pipeVars, provVars, parseVars, dirVars, diskVars, writeVars,
                   retry_run, resume>>

\* processor.py 521-912: run t reads a batch at its offset, gets and writes
\* the results (a line for each record) and advances by len(items); its own
\* copy of the progress file is rewritten
TwinBatch(t) ==
    /\ twin[t].pc = "read"
    /\ LET its == ReadFileBatch(twin[t].pos, batch_size)
       IN  /\ ~LoopEndsAt(its, twin[t].pos)
           /\ twin' = [twin EXCEPT ![t].offsets = Append(@, twin[t].pos),
                                   ![t].pos = @ + Len(its),
                                   ![t].rows = @ + Len(its)]
    /\ UNCHANGED <<pipeVars, provVars, parseVars, dirVars, diskVars, writeVars,
                   retry_run, resume>>

\* processor.py 528-529: the loop of run t breaks
TwinEnds(t) ==
    /\ twin[t].pc = "read"
    /\ LoopEndsAt(ReadFileBatch(twin[t].pos, batch_size), twin[t].pos)
    /\ twin' = [twin EXCEPT ![t].pc = "done"]
    /\ UNCHANGED <<pipeVars, provVars, parseVars, dirVars, diskVars, writeVars,
                   retry_run, resume>>

TwinNext == \E t \in 1..2 : TwinStart(t) \/ TwinBatch(t) \/ TwinEnds(t)

TwinSpec == TwinInit /\ [][TwinNext]_vars

IsPrefix(a, b) == Len(a) <= Len(b) /\ SubSeq(b, 1, Len(a)) = a

MaxFailed == 2      \* rows of the old error file

\* what self.provider.process_request hands back to the gather of the retry
RetryResults ==
    { r \in ProviderResults :
        \/ r.type \in {"Exception", "None"}
        \/ r.type = "dict" /\ r.shape \in {"raw_parsed", "raw_parse_error", "plain"} }

\* processor.py 225-322: the body of "for content, result in zip(...)"; an
\* exception of writerow reaches "except Exception" (324-326), which counts
\* other_error and writes nothing
RetryClassify(r, h) ==
    CASE r.type = "Exception" -> Outcome(0, 1, 0, 0, h, FALSE, TRUE, FALSE)
      [] r.type = "dict" /\ r.shape = "raw_parsed" -> WriteSuccess(h, r.keys, FALSE)
      [] r.type = "dict" /\ r.shape = "raw_parse_error" ->
             Outcome(0, 0, 1, 0, h, FALSE, TRUE, TRUE)
      [] r.type = "dict" -> WriteSuccess(h, r.keys, FALSE)
      [] OTHER -> Outcome(0, 0, 0, 1, h, FALSE, FALSE, FALSE)

RetryInit ==
    /\ PipeIdle
    /\ ProvIdle
    /\ ParseIdle
    /\ DirIdle
    /\ DiskIdle
    /\ WriteIdle
    /\ TwinIdle
    /\ ResumeIdle
    /\ \E e \in {".csv", ".json"}, has \in BOOLEAN, n \in 0..MaxFailed,
          b \in 1..MaxBatch, h \in (SUBSET Keys) :
           retry_run = [pc |-> "start", ext |-> e, error_file |-> has,
                        failed |-> IF has THEN n ELSE 0, batch |-> b,
                        old_headers |-> IF e = ".csv" THEN h ELSE NoHeaders,
                        headers |-> NoHeaders, sent |-> 0, k |-> 1,
                        out |-> {}, err |-> {},
                        stats |-> ZeroStats]

\* processor.py 109-203: without an error file or without a row in it the
\* call returns; otherwise the error file is backed up and emptied, the
\* counters are set and the header of the output file is read
RetryStart ==
    /\ retry_run.pc = "start"
    /\ retry_run' =
           IF ~retry_run.error_file \/ retry_run.failed = 0
           THEN [retry_run EXCEPT !.pc = "returned"]
           ELSE [retry_run EXCEPT !.pc = "batch",
                                  !.headers = retry_run.old_headers,
                                  !.stats = [ZeroStats EXCEPT !.total = retry_run.failed]]
    /\ UNCHANGED <<pipeVars, provVars, parseVars, dirVars, diskVars, writeVars,
                   twin, resume>>

\* processor.py 210-223: the requests of failed_items[i:i+batch_size] are
\* created and gathered
RetryBatch ==
    /\ retry_run.pc = "batch"
    /\ retry_run.sent < retry_run.failed
    /\ retry_run' = [retry_run EXCEPT
                       !.pc = "classify",
                       !.sent = Min(@ + retry_run.batch, retry_run.failed)]
    /\ UNCHANGED <<pipeVars, provVars, parseVars, dirVars, diskVars, writeVars,
                   twin, resume>>

\* processor.py 225-328: one (content, result) pair of the batch, r being
\* the result gathered for it
RetryPair(r) ==
    /\ retry_run.pc = "classify"
    /\ retry_run.k <= retry_run.sent
    /\ LET o == RetryClassify(r, retry_run.headers)
           i == retry_run.k
       IN  retry_run' = [retry_run EXCEPT
                           !.headers = o.headers,
                           !.out = IF o.out_row THEN @ \cup {i} ELSE @,
                           !.err = IF o.err_row THEN @ \cup {i} ELSE @,
                           !.stats = AddOutcome(@, o),
                           !.k = i + 1]
    /\ UNCHANGED <<pipeVars, provVars, parseVars, dirVars, diskVars, writeVars,
                   twin, resume>>

\* processor.py 210 and 330-end: the batch is done; the next one, or the end
RetryBatchEnds ==
    /\ retry_run.pc = "classify"
    /\ retry_run.k > retry_run.sent
    /\ retry_run' = [retry_run EXCEPT
                       !.pc = IF retry_run.sent < retry_run.failed
                              THEN "batch" ELSE "done"]
    /\ UNCHANGED <<pipeVars, provVars, parseVars, dirVars, diskVars, writeVars,
                   twin, resume>>

RetryNext ==
    \/ RetryStart
    \/ RetryBatch
    \/ \E r \in RetryResults : RetryPair(r)
    \/ RetryBatchEnds

RetrySpec == RetryInit /\ [][RetryNext]_vars

\* C31: when retry_failed_records has finished, every record read from the
\* old error file has a new row in the output file or a row in the rewritten
\* error file.
C31_RetryLosesNoRecord ==
    retry_run.pc = "done" =>
        \A i \in 1..retry_run.failed : i \in retry_run.out \/ i \in retry_run.err

\* ====================================== AliyunAgentProvider.process_request
\* The requests of one batch inside AliyunAgentProvider, which the factory
\* creates for api_type 'aliyun_agent'. The class stores concurrent_limit
\* (aliyun_agent.py 25) and has no semaphore; the processor creates one
\* task for each record of the batch and gathers them (processor.py 533-544).
AgentRetryableStatus == {429, 503}

AgentInit ==
    /\ PipeIdle
    /\ ParseIdle
    /\ DirIdle
    /\ AuxIdle
    /\ impl = "aliyun"
    /\ max_retries \in 0..MaxRetries
    /\ concurrent_limit \in 1..MaxLimit
    /\ retry_interval \in {IntervalStep * i : i \in 0..MaxInterval}
    /\ semaphore = 0
    /\ \E n \in 1..MaxTasks : req = [t \in 1..n |-> NewRequest]
    /\ prov_batches = 1

\* aliyun_agent.py 44-59: the task runs up to session.post, the request is sent
AgentPost(t) ==
    /\ impl = "aliyun"
    /\ req[t].state = "acquire"
    /\ req' = [req EXCEPT ![t].state = "post", ![t].attempts = @ + 1]
    /\ UNCHANGED <<pipeVars, parseVars, dirVars, auxVars, semaphore, max_retries,
                   concurrent_limit, retry_interval, prov_batches, impl>>

\* aliyun_agent.py 60-63 and 79-82: status 200 gives what _parse_response
\* returns, a status that is neither 200, 429 nor 503 gives None
AgentRespond(t, res) ==
    /\ impl = "aliyun"
    /\ req[t].state = "post"
    /\ req' = [req EXCEPT ![t] = Returned(Responded([@ EXCEPT !.only503 = FALSE]), res)]
    /\ UNCHANGED <<pipeVars, parseVars, dirVars, auxVars, semaphore, max_retries,
                   concurrent_limit, retry_interval, prov_batches, impl>>

\* aliyun_agent.py 65-78: status 429 or 503
AgentRespondRetryable(t, status) ==
    /\ impl = "aliyun"
    /\ req[t].state = "post"
    /\ LET r == Responded([req[t] EXCEPT !.only503 = @ /\ status = 503])
       IN  req' = [req EXCEPT ![t] = IF r.retry_count < max_retries
                                     THEN Sleeping(r) ELSE Returned(r, "None")]
    /\ UNCHANGED <<pipeVars, parseVars, dirVars, auxVars, semaphore, max_retries,
                   concurrent_limit, retry_interval, prov_batches, impl>>

\* aliyun_agent.py 84-96: session.post (or reading the response) raises
AgentPostRaises(t) ==
    /\ impl = "aliyun"
    /\ req[t].state = "post"
    /\ LET r == [req[t] EXCEPT !.only503 = FALSE]
       IN  req' = [req EXCEPT ![t] = IF r.retry_count < max_retries
                                     THEN Sleeping(r) ELSE Returned(r, "None")]
    /\ UNCHANGED <<pipeVars, parseVars, dirVars, auxVars, semaphore, max_retries,
                   concurrent_limit, retry_interval, prov_batches, impl>>

\* aliyun_agent.py 69-75 and 89-95: the sleep ends, process_request(retry_count + 1)
AgentRetryCall(t) ==
    /\ impl = "aliyun"
    /\ req[t].state = "sleep"
    /\ req' = [req EXCEPT ![t].state = "acquire", ![t].retry_count = @ + 1]
    /\ UNCHANGED <<pipeVars, parseVars, dirVars, auxVars, semaphore, max_retries,
                   concurrent_limit, retry_interval, prov_batches, impl>>

AgentNext ==
    \/ \E t \in DOMAIN req : AgentPost(t)
    \/ \E t \in DOMAIN req, res \in {"dict", "None"} : AgentRespond(t, res)
    \/ \E t \in DOMAIN req, status \in AgentRetryableStatus :
           AgentRespondRetryable(t, status)
    \/ \E t \in DOMAIN req : AgentPostRaises(t)
    \/ \E t \in DOMAIN req : AgentRetryCall(t)

AgentSpec == AgentInit /\ [][AgentNext]_vars

\* C32: with AliyunAgentProvider configured with concurrent_limit = L at most
\* L requests are in flight at once.
C32_AgentConcurrencyBound ==
    impl = "aliyun" => Cardinality(InFlight) <= concurrent_limit

\* ============================ the runs of llm_batch_call_round2.py on a file
\* The runs of main() of the standalone script over one CSV input file of
\* resume.rows records. resume.progress is processed_count of the file's
\* progress file (-1: no progress file), resume.pos the current_pos of the
\* run (kept when the run stops), resume.first_pos the offset at which the
\* run started to read, resume.consumed the offset reached by the run before
\* it (-1: none), resume.succeeded the records written by write_result and
\* resume.redone the records dispatched again after they had succeeded.

\* llm_batch_call_round2.py 341: the progress file is saved at every tenth success
SaveEvery == 10

ScriptOutcomes == {"ok", "failed"}

\* OutputManager.write_result for the successes from count c + 1 to c + n
\* (llm_batch_call_round2.py 340-342): the last count saved, if any
SavedCount(old, c, n) ==
    LET hits == {m \in (c + 1)..(c + n) : m % SaveEvery = 0}
    IN  IF hits = {} THEN old ELSE CHOOSE m \in hits : \A x \in hits : x <= m

ResumeInit ==
    /\ PipeIdle
    /\ ProvIdle
    /\ ParseIdle
    /\ DirIdle
    /\ DiskIdle
    /\ WriteIdle
    /\ TwinIdle
    /\ RetryIdle
    /\ \E n \in 1..MaxRows, b \in 1..MaxBatch, sp \in StartChoices :
           resume = [pc |-> "idle", run |-> 0, rows |-> n, batch |-> b,
                     start_arg |-> sp, pos |-> 0, first_pos |-> 0,
                     consumed |-> -1, processed_count |-> 0, progress |-> -1,
                     succeeded |-> {}, redone |-> {}]

\* llm_batch_call_round2.py 176-204 and 823-848: initialize_file writes a
\* progress file with count 0 when there is none, get_file_progress reads the
\* count, the run starts at it, or at --start-pos when it is 0; a file whose
\* start is at or beyond its end is skipped
ResumeStart ==
    /\ resume.pc \in {"idle", "done"}
    /\ resume.run < MaxRuns
    /\ LET count == IF resume.progress = -1 THEN 0 ELSE resume.progress
           start == IF count > 0 THEN count ELSE Max(0, resume.start_arg - 1)
       IN  resume' = [resume EXCEPT
                        !.run = @ + 1,
                        !.progress = count,
                        !.consumed = IF resume.run = 0 THEN -1 ELSE resume.pos,
                        !.pos = start,
                        !.first_pos = start,
                        !.processed_count = IF start >= resume.rows THEN @ ELSE count,
                        !.pc = IF start >= resume.rows THEN "done" ELSE "loop"]
    /\ UNCHANGED <<pipeVars, provVars, parseVars, dirVars, diskVars, writeVars,
                   twin, retry_run>>

\* llm_batch_call_round2.py 849-877 and 651-691: one batch is read, its
\* requests gathered and each result written: write_result counts a success
\* in processed_count, write_failed_result counts a failure in failed_count
ResumeBatch(out) ==
    /\ resume.pc = "loop"
    /\ resume.pos < resume.rows
    /\ LET size == Min(resume.batch, resume.rows - resume.pos)
           its == [i \in 1..size |-> resume.pos + i - 1]
       IN  /\ DOMAIN out = 1..size
           /\ LET oks == {its[i] : i \in {j \in 1..size : out[j] = "ok"}}
                  n == Cardinality(oks)
              IN  resume' = [resume EXCEPT
                               !.pos = @ + size,
                               !.processed_count = @ + n,
                               !.progress = SavedCount(@, resume.processed_count, n),
                               !.redone = @ \cup (Range(its) \cap resume.succeeded),
                               !.succeeded = @ \cup oks]
    /\ UNCHANGED <<pipeVars, provVars, parseVars, dirVars, diskVars, writeVars,
                   twin, retry_run>>

\* llm_batch_call_round2.py 849 and 879-881: the loop of the file ends and
\* processed_count is saved
ResumeFileEnds ==
    /\ resume.pc = "loop"
    /\ resume.pos >= resume.rows
    /\ resume' = [resume EXCEPT !.pc = "done", !.progress = resume.processed_count]
    /\ UNCHANGED <<pipeVars, provVars, parseVars, dirVars, diskVars, writeVars,
                   twin, retry_run>>

\* the run is stopped between two batches: by a KeyboardInterrupt that
\* reaches the handler of main (887-896), which saves processed_count, or by
\* one that does not (the task is cancelled first) or a kill, which saves nothing
ResumeInterrupt(saved) ==
    /\ resume.pc = "loop"
    /\ resume' = [resume EXCEPT
                    !.pc = "idle",
                    !.progress = IF saved THEN resume.processed_count ELSE @]
    /\ UNCHANGED <<pipeVars, provVars, parseVars, dirVars, diskVars, writeVars,
                   twin, retry_run>>

ResumeNext ==
    \/ ResumeStart
    \/ \E size \in 1..MaxBatch : \E out \in [1..size -> ScriptOutcomes] : ResumeBatch(out)
    \/ ResumeFileEnds
    \/ \E saved \in BOOLEAN : ResumeInterrupt(saved)

ResumeSpec == ResumeInit /\ [][ResumeNext]_vars

\* C38: a resumed run of the script starts to read at the offset the run
\* before it had reached (the records it consumed, successes and failures
\* together), and dispatches no record that succeeded before.
C38_ScriptResumeOffset ==
    resume.run >= 2 =>
        /\ resume.first_pos = resume.consumed
        /\ resume.redone = {}

====
